---- MODULE Spec2Model ----
(***************************************************************************)
(* Model of the market-data-fetcher skill of qute-code-kit:                *)
(*   ticker_registry.py  TickerRegistry / Security (security master)       *)
(*   fetch_unified.py    UnifiedMarketDataFetcher (routing and fallback)   *)
(*   fetch_nbp.py, fetch_tiingo.py, fetch_financialdata.py (provider       *)
(*   fetches through the shared cache and rate limiter)                    *)
(*                                                                         *)
(* Python strings are modelled as tuples of one-character strings so that  *)
(* str.upper(), str.lower(), len(), slicing and the character classes are  *)
(* computed, not assumed.  Python None and the empty string are both       *)
(* falsy and the modelled code only ever tests them by truthiness, so both *)
(* are the empty tuple.                                                    *)
(***************************************************************************)
EXTENDS Integers, Sequences, FiniteSets, TLC

VARIABLES
    \* ---- TickerRegistry (ticker_registry.py)
    securities,     \* self._securities: insertion-ordered dict, a sequence of Security
    ticker_index,   \* self._ticker_index: key -> uid
    csv,            \* the security_master.csv file: whether it exists, and its rows
    auto_discover,  \* self.auto_discover
    lastOp,         \* the last public call on the registry, its arguments and result
    given,          \* history: upper-cased alias -> who was given it last, and everyone given it
    nops,           \* number of registry calls made so far
    \* ---- UnifiedMarketDataFetcher.fetch (fetch_unified.py)
    fetchers,       \* keys of self.fetchers
    f_pc,           \* position of the running fetch call
    f_id,           \* identifier argument
    f_sources,      \* sources (the routed candidate list)
    f_tmap,         \* ticker_map
    f_ok,           \* the providers whose fetch succeeds when invoked during this call
    f_i,            \* number of candidates the for loop has consumed
    f_calls,        \* history: <<source, ticker>> of every provider fetch invoked
    f_errors,       \* history: the failure of every attempted candidate, in order
    f_last_error,   \* last_error
    f_result,       \* what fetch returned or raised
    f_source,       \* the source argument of fetch ("" when not given)
    f_results,      \* the results dict of compare_sources
    \* ---- one provider fetch (fetch_nbp.py, fetch_tiingo.py, fetch_financialdata.py)
    p_cfg,          \* self.use_cache and self.cache_hours of the provider fetchers
    p_n,            \* number of provider fetches started so far
    p_pc,           \* position of the running provider fetch
    p_req,          \* provider, ticker, start date, endpoint or table, paginate
    p_trace,        \* history: cache / rate limiter / network events of the call
    p_offset,       \* FinancialDataFetcher._request: offset
    p_data,         \* rows fetched so far (all_data)
    p_result,       \* what the provider fetch returned or raised
    cache,          \* cache manager: entries of provider, cache id, payload, write time
    last_call,      \* rate limiter: provider -> whether called, and when last
    now,            \* the clock
    \* ---- one call of the corporate-actions adjuster
    a_pc,           \* position of the adjust call
    a_prices,       \* prices: date -> Close
    a_events,       \* events: the corporate-action events, each a date and a divisor
    a_out,          \* the adjusted series: date -> row
    \* ---- two processes, each with its own TickerRegistry on the one csv file
    w_mode,         \* how the processes are run: "interleaved" or "serial"
    w_pc,           \* process -> its position
    w_self,         \* process -> its TickerRegistry instance
    w_mut,          \* process -> the add_ticker_mapping arguments it will pass
    w_out           \* process -> what its add_ticker_mapping call gave

regVars   == <<securities, ticker_index, csv, auto_discover, lastOp, given, nops>>
fetchVars == <<fetchers, f_pc, f_id, f_sources, f_tmap, f_ok, f_i, f_calls, f_errors,
               f_last_error, f_result, f_source, f_results>>
provVars  == <<p_cfg, p_n, p_pc, p_req, p_trace, p_offset, p_data, p_result, cache, last_call, now>>
adjVars   == <<a_pc, a_prices, a_events, a_out>>
wrVars    == <<w_mode, w_pc, w_self, w_mut, w_out>>
vars      == <<regVars, fetchVars, provVars, adjVars, wrVars>>

----------------------------------------------------------------------------
(* Strings *)

None == << >>

LOWERS == <<"a","b","c","d","e","f","g","h","i","j","k","l","m",
            "n","o","p","q","r","s","t","u","v","w","x","y","z">>
UPPERS == <<"A","B","C","D","E","F","G","H","I","J","K","L","M",
            "N","O","P","Q","R","S","T","U","V","W","X","Y","Z">>
DIGITS == {"0","1","2","3","4","5","6","7","8","9"}

Range(f) == {f[i] : i \in DOMAIN f}

LowerSet == Range(LOWERS)
UpperSet == Range(UPPERS)
ToUpper  == [c \in LowerSet |-> UPPERS[CHOOSE i \in DOMAIN LOWERS : LOWERS[i] = c]]
ToLower  == [c \in UpperSet |-> LOWERS[CHOOSE i \in DOMAIN UPPERS : UPPERS[i] = c]]

is_lower_char(c) == c \in LowerSet
is_upper_char(c) == c \in UpperSet
is_alpha_char(c) == is_lower_char(c) \/ is_upper_char(c)
is_alnum_char(c) == is_alpha_char(c) \/ c \in DIGITS

upper_char(c) == IF is_lower_char(c) THEN ToUpper[c] ELSE c
lower_char(c) == IF is_upper_char(c) THEN ToLower[c] ELSE c

\* str.upper(), str.lower()
upper(s) == [i \in DOMAIN s |-> upper_char(s[i])]
lower(s) == [i \in DOMAIN s |-> lower_char(s[i])]

\* str.isalpha(), str.isalnum(): false on the empty string
isalpha(s) == Len(s) > 0 /\ \A i \in DOMAIN s : is_alpha_char(s[i])
isalnum(s) == Len(s) > 0 /\ \A i \in DOMAIN s : is_alnum_char(s[i])

\* str.isupper(): at least one cased character and no lower-case one
isupper(s) == (\E i \in DOMAIN s : is_upper_char(s[i]))
              /\ \A i \in DOMAIN s : ~is_lower_char(s[i])

\* s[a:b] with 0 <= a <= b, Python's clamping included
slice(s, a, b) == SubSeq(s, a + 1, IF b > Len(s) THEN Len(s) ELSE b)

startswith(s, p) == Len(p) <= Len(s) /\ SubSeq(s, 1, Len(p)) = p
endswith(s, p)   == Len(p) <= Len(s) /\ SubSeq(s, Len(s) - Len(p) + 1, Len(s)) = p
\* p in s
contains(s, p) == \E i \in 0..(Len(s) - Len(p)) : SubSeq(s, i + 1, i + Len(p)) = p

----------------------------------------------------------------------------
(* Identifiers used as inputs *)

ISIN_A       == <<"P","L","X","T","R","D","M","0","0","0","1","1">>
ISIN_A_LOWER == lower(ISIN_A)
ISIN_PREFIX  == <<"i","s","i","n","_">>
UID_ISIN_A   == ISIN_PREFIX \o ISIN_A
UID_PKO      == <<"P","K","O">>
TICKER_PKO   == <<"P","K","O">>
TICKER_pko   == <<"p","k","o">>
TICKER_XTB   == <<"X","T","B",".","W","A">>

----------------------------------------------------------------------------
(* ticker_registry.py: Security *)

SourceType == {"bloomberg", "yahoo", "stooq", "fred", "nbp"}

NoTickers == [s \in SourceType |-> None]

\* Security(...): the fields the registry and the router read.  name, exchange,
\* metadata and last_updated are carried by the code but never branched on.
Security(uid, isin, instrument_type, country, tickers, mapping_source) ==
    [uid |-> uid, isin |-> isin, instrument_type |-> instrument_type,
     country |-> country, tickers |-> tickers, mapping_source |-> mapping_source]

\* Security.get_ticker: self.tickers.get(source)
get_ticker(security, source) ==
    IF source \in DOMAIN security.tickers THEN security.tickers[source] ELSE None

\* Security.to_dict: the CSV row.  There is no ticker_nbp column.
to_dict(security) ==
    [uid |-> security.uid,
     isin |-> security.isin,
     instrument_type |-> security.instrument_type,
     country |-> security.country,
     ticker_bloomberg |-> get_ticker(security, "bloomberg"),
     ticker_yahoo |-> get_ticker(security, "yahoo"),
     ticker_stooq |-> get_ticker(security, "stooq"),
     ticker_fred |-> get_ticker(security, "fred"),
     mapping_source |-> security.mapping_source]

\* Security.from_dict: only the four ticker_ columns are read back.
from_dict(d) ==
    Security(d.uid, d.isin, d.instrument_type, d.country,
             [s \in SourceType |->
                 CASE s = "bloomberg" -> d.ticker_bloomberg
                   [] s = "yahoo"     -> d.ticker_yahoo
                   [] s = "stooq"     -> d.ticker_stooq
                   [] s = "fred"      -> d.ticker_fred
                   [] OTHER           -> None],
             d.mapping_source)

----------------------------------------------------------------------------
(* ticker_registry.py: TickerRegistry.  An instance is the record `self`:  *)
(*   securities, ticker_index, csv (the file at csv_path), and three       *)
(*   history fields that the code does not have: calls, the number of      *)
(*   discovery delegate lookups made during the call; writes, the number   *)
(*   of times the call rewrote the file; given, who was given each alias.  *)

\* the file at csv_path: whether it exists, its rows, and the positions of the
\* rows the csv reader raises on instead of yielding them (csv.Error: a field
\* longer than csv.field_size_limit)
NoFile == [exists |-> FALSE, rows |-> << >>, unreadable |-> {}]
File(rows) == [exists |-> TRUE, rows |-> rows, unreadable |-> {}]

HasUid(secs, uid) == \E i \in DOMAIN secs : secs[i].uid = uid
\* self._securities[uid]
SecOf(secs, uid) == secs[CHOOSE i \in DOMAIN secs : secs[i].uid = uid]
\* self._securities[uid] = security (a dict keeps the position of a key it has)
DictPut(secs, security) ==
    IF HasUid(secs, security.uid)
    THEN [i \in DOMAIN secs |-> IF secs[i].uid = security.uid THEN security ELSE secs[i]]
    ELSE Append(secs, security)
\* the index assignment as setdefault: a key that is present keeps its uid
IndexPut_keep_first(idx, keys, uid) ==
    [k \in DOMAIN idx \cup keys |-> IF k \in DOMAIN idx THEN idx[k] ELSE uid]
\* self._ticker_index[k] = uid for every k in keys
IndexPut(idx, keys, uid) ==
    [k \in DOMAIN idx \cup keys |-> IF k \in keys THEN uid ELSE idx[k]]
\* self._ticker_index.get(k)
IndexGet(idx, k) == IF k \in DOMAIN idx THEN idx[k] ELSE None

\* history: the aliases `keys` (upper-cased) are given to uid
Give(gv, keys, uid) ==
    [k \in DOMAIN gv \cup keys |->
        IF k \in keys
        THEN [last |-> uid, all |-> (IF k \in DOMAIN gv THEN gv[k].all ELSE {}) \cup {uid}]
        ELSE gv[k]]

_looks_like_isin(s) ==
    Len(s) = 12 /\ isalpha(slice(s, 0, 2)) /\ isalnum(slice(s, 2, 12))

\* get_security with the ticker index consulted before the ISIN step
get_security_index_first(self, identifier) ==
    IF HasUid(self.securities, identifier) THEN identifier
    ELSE IF IndexGet(self.ticker_index, upper(identifier)) # None
    THEN (IF HasUid(self.securities, IndexGet(self.ticker_index, upper(identifier)))
          THEN IndexGet(self.ticker_index, upper(identifier)) ELSE None)
    ELSE IF _looks_like_isin(identifier)
            /\ HasUid(self.securities, ISIN_PREFIX \o identifier)
    THEN ISIN_PREFIX \o identifier
    ELSE IF IndexGet(self.ticker_index, lower(identifier)) # None
    THEN (IF HasUid(self.securities, IndexGet(self.ticker_index, lower(identifier)))
          THEN IndexGet(self.ticker_index, lower(identifier)) ELSE None)
    ELSE None

\* get_security looking the identifier up as written instead of upper-cased
get_security_exact_case(self, identifier) ==
    IF HasUid(self.securities, identifier) THEN identifier
    ELSE IF _looks_like_isin(identifier)
            /\ HasUid(self.securities, ISIN_PREFIX \o identifier)
    THEN ISIN_PREFIX \o identifier
    ELSE IF IndexGet(self.ticker_index, identifier) # None
    THEN (IF HasUid(self.securities, IndexGet(self.ticker_index, identifier))
          THEN IndexGet(self.ticker_index, identifier) ELSE None)
    ELSE IF IndexGet(self.ticker_index, lower(identifier)) # None
    THEN (IF HasUid(self.securities, IndexGet(self.ticker_index, lower(identifier)))
          THEN IndexGet(self.ticker_index, lower(identifier)) ELSE None)
    ELSE None

\* TickerRegistry.get_security; the result is the uid of the Security returned, or None
get_security(self, identifier) ==
    IF HasUid(self.securities, identifier) THEN identifier
    ELSE IF _looks_like_isin(identifier)
            /\ HasUid(self.securities, ISIN_PREFIX \o identifier)
    THEN ISIN_PREFIX \o identifier
    ELSE IF IndexGet(self.ticker_index, upper(identifier)) # None
    THEN (IF HasUid(self.securities, IndexGet(self.ticker_index, upper(identifier)))
          THEN IndexGet(self.ticker_index, upper(identifier)) ELSE None)
    ELSE IF IndexGet(self.ticker_index, lower(identifier)) # None
    THEN (IF HasUid(self.securities, IndexGet(self.ticker_index, lower(identifier)))
          THEN IndexGet(self.ticker_index, lower(identifier)) ELSE None)
    ELSE None

\* the keys register_security writes for the tickers of a security
TickerKeys(security) ==
    {upper(security.tickers[s]) : s \in {x \in SourceType : security.tickers[x] # None}}
    \cup (IF security.tickers["stooq"] # None
          THEN {lower(security.tickers["stooq"])} ELSE {})

\* TickerRegistry.register_security (a security without uid raises ValueError
\* and changes nothing).  It does not call _save.
register_security(self, security) ==
    IF security.uid = None THEN self
    ELSE [self EXCEPT
            !.securities = DictPut(@, security),
            !.ticker_index =
                IndexPut(@, (IF security.isin # None THEN {security.isin} ELSE {})
                            \cup TickerKeys(security), security.uid),
            !.given = Give(@, {upper(security.tickers[s]) :
                                  s \in {x \in SourceType : security.tickers[x] # None}},
                           security.uid)]

\* TickerRegistry._save.  io is what the file system does:
\*   "ok"          the table is rewritten in full
\*   "open_error"  open() fails; the except clause prints and returns
\*   "mkdir_error" mkdir() fails, outside the try: the exception leaves _save
SaveOutcomes == {"ok", "open_error", "mkdir_error"}
\* _save that leaves the file as it was
_save_unwritten(self, io) == self
_save(self, io) ==
    IF io = "ok"
    THEN [self EXCEPT
            !.csv = File([i \in DOMAIN self.securities |-> to_dict(self.securities[i])]),
            !.writes = @ + 1]
    ELSE self
\* whether _save raises to its caller
SaveRaises(io) == io = "mkdir_error"
\* mkdir(parents=True, exist_ok=True) cannot fail while the file is in the directory
IoPossible(self, io) == io = "mkdir_error" => ~self.csv.exists

\* add_ticker_mapping without the ticker index assignment
add_ticker_mapping_unindexed(self, identifier, source, ticker, persist, io) ==
    LET uid == get_security(self, identifier) IN
    IF uid = None THEN [self |-> self, result |-> FALSE, raised |-> FALSE]
    ELSE LET security == SecOf(self.securities, uid)
             mutated  == [self EXCEPT
                 !.securities = DictPut(@, [security EXCEPT !.tickers[source] = ticker]),
                 !.given = IF ticker # None THEN Give(@, {upper(ticker)}, uid) ELSE @]
         IN  IF persist
             THEN [self |-> _save(mutated, io), result |-> ~SaveRaises(io),
                   raised |-> SaveRaises(io)]
             ELSE [self |-> mutated, result |-> TRUE, raised |-> FALSE]

\* add_ticker_mapping with _save called before the in-memory assignments
add_ticker_mapping_save_first(self, identifier, source, ticker, persist, io) ==
    LET uid == get_security(self, identifier) IN
    IF uid = None THEN [self |-> self, result |-> FALSE, raised |-> FALSE]
    ELSE LET security == SecOf(self.securities, uid)
             saved    == IF persist THEN _save(self, io) ELSE self
             mutated  == [saved EXCEPT
                 !.securities = DictPut(@, [security EXCEPT !.tickers[source] = ticker]),
                 !.ticker_index = IndexPut(@, {upper(ticker)}, uid),
                 !.given = IF ticker # None THEN Give(@, {upper(ticker)}, uid) ELSE @]
         IN  IF persist /\ SaveRaises(io)
             THEN [self |-> saved, result |-> FALSE, raised |-> TRUE]
             ELSE [self |-> mutated, result |-> TRUE, raised |-> FALSE]

\* TickerRegistry.add_ticker_mapping; result is the value returned
add_ticker_mapping(self, identifier, source, ticker, persist, io) ==
    LET uid == get_security(self, identifier) IN
    IF uid = None THEN [self |-> self, result |-> FALSE, raised |-> FALSE]
    ELSE LET security == SecOf(self.securities, uid)
             mutated  == [self EXCEPT
                 !.securities = DictPut(@, [security EXCEPT !.tickers[source] = ticker]),
                 !.ticker_index = IndexPut(@, {upper(ticker)}, uid),
                 !.given = IF ticker # None THEN Give(@, {upper(ticker)}, uid) ELSE @]
         IN  IF persist
             THEN [self |-> _save(mutated, io), result |-> ~SaveRaises(io),
                   raised |-> SaveRaises(io)]
             ELSE [self |-> mutated, result |-> TRUE, raised |-> FALSE]

\* TickerRegistry._load over the rows of the file, in file order
RECURSIVE load_rows(_, _)
load_rows(self, rows) ==
    IF rows = << >> THEN self
    ELSE load_rows(IF from_dict(Head(rows)).uid # None
                   THEN register_security(self, from_dict(Head(rows)))
                   ELSE self,
                   Tail(rows))

\* TickerRegistry.__init__ with _load: a fresh instance on the file `file`
_load(file) ==
    LET empty == [securities |-> << >>, ticker_index |-> << >>, csv |-> file,
                  calls |-> 0, writes |-> 0, given |-> << >>]
        bad   == file.unreadable \cap DOMAIN file.rows
        \* the rows the reader yields before it raises; the one try statement
        \* around the loop ends the load there
        read  == IF bad = {} THEN file.rows
                 ELSE SubSeq(file.rows, 1, (CHOOSE k \in bad : \A j \in bad : k <= j) - 1)
    IN  IF ~file.exists THEN empty ELSE load_rows(empty, read)

\* TickerRegistry._infer_type_from_ticker
_infer_type_from_ticker(yahoo_ticker) ==
    IF startswith(yahoo_ticker, <<"^">>) THEN "index"
    ELSE IF contains(yahoo_ticker, <<"=", "X">>) THEN "currency"
    ELSE "equity"

\* TickerRegistry._create_security_from_discovery
_create_security_from_discovery(isin, yahoo_ticker) ==
    Security(ISIN_PREFIX \o isin, isin, _infer_type_from_ticker(yahoo_ticker),
             IF Len(isin) >= 2 THEN slice(isin, 0, 2) ELSE None,
             [NoTickers EXCEPT !["yahoo"] = yahoo_ticker], "yahoo_api")

\* TickerRegistry._lookup_yahoo_ticker: one call of the discovery delegate.
\* `found` is what the delegate answers (None when it finds nothing or fails).
_lookup_yahoo_ticker(self, found) ==
    [self |-> [self EXCEPT !.calls = @ + 1], ticker |-> found]

\* TickerRegistry._discover_from_isin; security is the uid of the Security returned
_discover_from_isin(self, isin, found, io) ==
    LET looked == _lookup_yahoo_ticker(self, found) IN
    IF looked.ticker = None
    THEN [self |-> looked.self, security |-> None, raised |-> FALSE]
    ELSE LET security == _create_security_from_discovery(isin, looked.ticker)
         IN  [self |-> _save(register_security(looked.self, security), io),
              security |-> IF SaveRaises(io) THEN None ELSE security.uid,
              raised |-> SaveRaises(io)]

\* convert_ticker asking the delegate again when the first lookup found nothing
convert_ticker_retry(self, auto, ticker, to_source, found, io) ==
    LET uid == get_security(self, ticker) IN
    IF uid # None
    THEN [self |-> self, result |-> get_ticker(SecOf(self.securities, uid), to_source),
          raised |-> FALSE]
    ELSE IF auto /\ _looks_like_isin(ticker)
    THEN LET d1 == _discover_from_isin(self, ticker, found, io)
             d  == IF d1.security = None /\ ~d1.raised
                   THEN _discover_from_isin(d1.self, ticker, found, io) ELSE d1
         IN
         [self |-> d.self,
          result |-> IF d.security # None
                     THEN get_ticker(SecOf(d.self.securities, d.security), to_source)
                     ELSE None,
          raised |-> d.raised]
    ELSE [self |-> self, result |-> None, raised |-> FALSE]

\* TickerRegistry.convert_ticker; auto is self.auto_discover
convert_ticker(self, auto, ticker, to_source, found, io) ==
    LET uid == get_security(self, ticker) IN
    IF uid # None
    THEN [self |-> self, result |-> get_ticker(SecOf(self.securities, uid), to_source),
          raised |-> FALSE]
    ELSE IF auto /\ _looks_like_isin(ticker)
    THEN LET d == _discover_from_isin(self, ticker, found, io) IN
         [self |-> d.self,
          result |-> IF d.security # None
                     THEN get_ticker(SecOf(d.self.securities, d.security), to_source)
                     ELSE None,
          raised |-> d.raised]
    ELSE [self |-> self, result |-> None, raised |-> FALSE]

\* discover_missing_yahoo_tickers, isins is None: the ISINs of the securities
\* with an ISIN and no Yahoo ticker, in dict order
MissingIsins(secs) ==
    LET F[i \in 0..Len(secs)] ==
        IF i = 0 THEN << >>
        ELSE IF secs[i].isin # None /\ get_ticker(secs[i], "yahoo") = None
             THEN Append(F[i - 1], secs[i].isin) ELSE F[i - 1]
    IN F[Len(secs)]

\* the body of the for loop of discover_missing_yahoo_tickers for one isin
discover_one(self, isin, found) ==
    LET looked == _lookup_yahoo_ticker(self, found)
        uid    == ISIN_PREFIX \o isin
    IN  IF looked.ticker = None THEN looked.self
        ELSE IF HasUid(looked.self.securities, uid)
        THEN [looked.self EXCEPT
                !.securities = DictPut(@, [SecOf(@, uid) EXCEPT
                                              !.tickers["yahoo"] = looked.ticker,
                                              !.mapping_source = "yahoo_api"]),
                !.ticker_index = IndexPut(@, {upper(looked.ticker)}, uid),
                !.given = Give(@, {upper(looked.ticker)}, uid)]
        ELSE register_security(looked.self,
                               _create_security_from_discovery(isin, looked.ticker))

RECURSIVE discover_loop(_, _, _)
discover_loop(self, isins, oracle) ==
    IF isins = << >> THEN self
    ELSE discover_loop(discover_one(self, Head(isins), oracle[Head(isins)]),
                       Tail(isins), oracle)

\* TickerRegistry.discover_missing_yahoo_tickers.  isins is [none, list]: the
\* argument is None, or it is the list.  oracle is what the delegate answers
\* for each ISIN; the result is the set of ISINs it answered for.
discover_missing_yahoo_tickers(self, isins, oracle, io) ==
    LET list       == IF isins.none THEN MissingIsins(self.securities) ELSE isins.list
        after      == discover_loop(self, list, oracle)
        discovered == {list[i] : i \in {j \in DOMAIN list : oracle[list[j]] # None}}
    IN  IF discovered # {}
        THEN [self |-> _save(after, io), result |-> discovered, raised |-> SaveRaises(io)]
        ELSE [self |-> after, result |-> discovered, raised |-> FALSE]

----------------------------------------------------------------------------
(* The registry as a state machine: one action per public call *)

MaxOps == 2

Self == [securities |-> securities, ticker_index |-> ticker_index, csv |-> csv,
         calls |-> 0, writes |-> 0, given |-> given]

\* Securities passed to register_security
UidInputs  == {UID_ISIN_A, UID_PKO}
IsinInputs == {None, ISIN_A, ISIN_A_LOWER}
TickerInputs ==
    {NoTickers,
     [NoTickers EXCEPT !["yahoo"] = TICKER_PKO],
     [NoTickers EXCEPT !["stooq"] = TICKER_pko],
     [NoTickers EXCEPT !["nbp"] = TICKER_pko]}
SecurityInputs ==
    {Security(u, i, "equity", <<"P","L">>, t, "manual") :
        u \in UidInputs, i \in IsinInputs, t \in TickerInputs}

\* Identifiers passed to the lookups
Identifiers == {UID_ISIN_A, ISIN_A, ISIN_A_LOWER, TICKER_PKO, TICKER_pko, TICKER_XTB}
\* Arguments of add_ticker_mapping
MapIdentifiers == {UID_ISIN_A, ISIN_A, TICKER_pko}
MapSources     == {"yahoo", "nbp"}
MapTickers     == {TICKER_PKO, TICKER_XTB}
\* What the discovery delegate may answer
Found == {None, TICKER_XTB}
DiscoverArgs == {[none |-> TRUE, list |-> << >>], [none |-> FALSE, list |-> <<ISIN_A>>]}
Oracles == [{ISIN_A, ISIN_A_LOWER} -> Found]

\* The files a process may find at start
InitialFiles ==
    {NoFile,
     File(<<to_dict(Security(UID_ISIN_A, ISIN_A, "equity", <<"P","L">>,
                             [NoTickers EXCEPT !["stooq"] = TICKER_pko], "manual"))>>)}

\* the identifier is held by nothing in the registry: it is no uid, no ISIN-derived
\* uid, and no key of the ticker index in any letter case
NotPresent(self, identifier) ==
    /\ ~HasUid(self.securities, identifier)
    /\ ~HasUid(self.securities, ISIN_PREFIX \o identifier)
    /\ \A k \in DOMAIN self.ticker_index : upper(k) # upper(identifier)

\* lastOp: the call, its arguments, its result, whether it raised, and about the
\* state it started in: resolved, what get_security gave for id; absent, whether id
\* was NotPresent; lookups and writes, the delegate calls and file rewrites it made
\* was made.  pre is kept for discover_missing_yahoo_tickers only: whether isins
\* was None, what the delegate answers for each ISIN, and the securities the call
\* started from
NoPre == [none |-> FALSE, oracle |-> << >>, securities |-> << >>]
Op(op, id, src, alias, persist, io, result, raised, resolved, absent, lookups, writes) ==
    [op |-> op, id |-> id, src |-> src, alias |-> alias, persist |-> persist, io |-> io,
     result |-> result, raised |-> raised, resolved |-> resolved, absent |-> absent,
     lookups |-> lookups, writes |-> writes, pre |-> NoPre]

Apply(self) ==
    /\ securities' = self.securities
    /\ ticker_index' = self.ticker_index
    /\ csv' = self.csv
    /\ given' = self.given

\* a persisted file has at most MaxRows rows
MaxRows == 3

\* The files a registry may be loaded from: every sequence of up to MaxRows rows,
\* each a row of one of two securities or a row with an empty uid cell, with any
\* of its rows unreadable
LoadFiles ==
    LET kinds == {to_dict(Security(UID_ISIN_A, ISIN_A, "equity", <<"P","L">>,
                                   [NoTickers EXCEPT !["stooq"] = TICKER_pko], "manual")),
                  to_dict(Security(UID_PKO, None, "equity", <<"P","L">>, NoTickers, "csv")),
                  to_dict(Security(None, None, "equity", None, NoTickers, "csv"))}
        files(n) == {[File(rows) EXCEPT !.unreadable = bad] :
                        rows \in [1..n -> kinds], bad \in SUBSET (1..n)}
    IN  UNION {files(n) : n \in 0..MaxRows}

RegInit ==
    /\ csv \in InitialFiles
    /\ securities = _load(csv).securities
    /\ ticker_index = _load(csv).ticker_index
    /\ given = _load(csv).given
    /\ auto_discover \in BOOLEAN
    /\ lastOp = Op("init", None, "", None, FALSE, "", None, FALSE, None, FALSE, 0, 0)
    /\ nops = 0

\* registry.get_security(identifier)
GetSecurity ==
    \E identifier \in Identifiers :
        /\ nops < MaxOps
        /\ nops' = nops + 1
        /\ lastOp' = Op("get_security", identifier, "", None, FALSE, "",
                        get_security(Self, identifier), FALSE,
                        get_security(Self, identifier), NotPresent(Self, identifier), 0, 0)
        /\ UNCHANGED <<securities, ticker_index, csv, auto_discover, given>>
        /\ UNCHANGED <<fetchVars, provVars, adjVars, wrVars>>

\* registry.register_security(security)
RegisterSecurity ==
    \E security \in SecurityInputs :
        /\ nops < MaxOps
        /\ Apply(register_security(Self, security))
        /\ lastOp' = Op("register_security", security.uid, "", None, FALSE, "",
                        None, FALSE, security.uid, FALSE,
                        register_security(Self, security).calls,
                        register_security(Self, security).writes)
        /\ nops' = nops + 1
        /\ UNCHANGED auto_discover
        /\ UNCHANGED <<fetchVars, provVars, adjVars, wrVars>>

\* registry.add_ticker_mapping(identifier, source, ticker, persist)
AddTickerMapping ==
    \E identifier \in MapIdentifiers, source \in MapSources, ticker \in MapTickers,
       persist \in BOOLEAN, io \in SaveOutcomes :
        /\ nops < MaxOps
        /\ IoPossible(Self, io)
        /\ ~persist => io = "ok"
        /\ LET r == add_ticker_mapping(Self, identifier, source, ticker, persist, io) IN
            /\ Apply(r.self)
            /\ lastOp' = Op("add_ticker_mapping", identifier, source, ticker, persist, io,
                            r.result, r.raised, get_security(Self, identifier), FALSE,
                            r.self.calls, r.self.writes)
        /\ nops' = nops + 1
        /\ UNCHANGED auto_discover
        /\ UNCHANGED <<fetchVars, provVars, adjVars, wrVars>>

\* registry.convert_ticker(ticker, to_source='yahoo')
ConvertTicker ==
    \E ticker \in Identifiers, found \in Found, io \in SaveOutcomes :
        /\ nops < MaxOps
        /\ IoPossible(Self, io)
        /\ LET r == convert_ticker(Self, auto_discover, ticker, "yahoo", found, io) IN
            /\ Apply(r.self)
            /\ lastOp' = Op("convert_ticker", ticker, "yahoo", None, FALSE,
                            IF r.self.calls > 0 /\ found # None THEN io ELSE "",
                            r.result, r.raised, get_security(Self, ticker),
                            NotPresent(Self, ticker), r.self.calls, r.self.writes)
        /\ nops' = nops + 1
        /\ UNCHANGED auto_discover
        /\ UNCHANGED <<fetchVars, provVars, adjVars, wrVars>>

\* registry.discover_missing_yahoo_tickers(isins)
DiscoverMissing ==
    \E isins \in DiscoverArgs, oracle \in Oracles, io \in SaveOutcomes :
        /\ nops < MaxOps
        /\ IoPossible(Self, io)
        /\ LET r == discover_missing_yahoo_tickers(Self, isins, oracle, io) IN
            /\ Apply(r.self)
            /\ lastOp' = [Op("discover_missing_yahoo_tickers", None, "yahoo", None, FALSE,
                             IF r.result # {} THEN io ELSE "",
                             None, r.raised, None, FALSE, r.self.calls, r.self.writes)
                           EXCEPT !.pre = [none |-> isins.none, oracle |-> oracle,
                                           securities |-> securities]]
        /\ nops' = nops + 1
        /\ UNCHANGED auto_discover
        /\ UNCHANGED <<fetchVars, provVars, adjVars, wrVars>>

\* a new process constructs TickerRegistry() on the same file
Reload ==
    /\ nops < MaxOps
    /\ Apply(_load(csv))
    /\ lastOp' = Op("load", None, "", None, FALSE, "", None, FALSE, None, FALSE, 0, 0)
    /\ nops' = nops + 1
    /\ UNCHANGED auto_discover
    /\ UNCHANGED <<fetchVars, provVars, adjVars, wrVars>>

RegNext ==
    \/ GetSecurity
    \/ RegisterSecurity
    \/ AddTickerMapping
    \/ ConvertTicker
    \/ DiscoverMissing
    \/ Reload

----------------------------------------------------------------------------
(* fetch_unified.py: UnifiedMarketDataFetcher, routing *)

POLISH_STOCKS ==
    {<<"p","k","o">>, <<"c","d","r">>, <<"p","z","u">>, <<"p","e","o">>, <<"p","k","n">>,
     <<"k","g","h">>, <<"p","g","e">>, <<"l","p","p">>, <<"a","l","e">>, <<"d","n","p">>,
     <<"c","p","s">>, <<"j","s","w">>, <<"p","z","u">>, <<"t","p","e">>, <<"m","i","l">>,
     <<"o","r","a","n","g","e">>}
POLISH_INDICES ==
    {<<"w","i","g">>, <<"w","i","g","2","0">>, <<"m","w","i","g","4","0">>,
     <<"s","w","i","g","8","0">>, <<"w","i","g","3","0">>,
     <<"w","i","g","-","u","k","r","a","i","n","e">>}
NBP_CURRENCIES ==
    {<<"U","S","D">>, <<"E","U","R">>, <<"G","B","P">>, <<"C","H","F">>, <<"J","P","Y">>,
     <<"C","A","D">>, <<"A","U","D">>, <<"S","E","K">>, <<"N","O","K">>, <<"D","K","K">>,
     <<"C","Z","K">>, <<"H","U","F">>, <<"R","O","N">>, <<"B","G","N">>, <<"H","R","K">>}

\* self.fetchers.keys(), in the order __init__ inserts them
FETCHER_ORDER ==
    <<"stooq", "nbp", "yahoo", "fred", "pdr", "tiingo", "ccxt", "financialdata">>

\* is_crypto_symbol as fetch_unified.py defines it (fetch_ccxt's own is imported
\* in its place when ccxt is installed)
is_crypto_symbol(s) ==
    \/ contains(s, <<"/">>)
    \/ endswith(upper(s), <<"U","S","D","T">>)
    \/ endswith(upper(s), <<"U","S","D","C">>)
    \/ endswith(upper(s), <<"B","T","C">>)

\* re.match(r'^[A-Z]{m,n}$', s)
UpperLetters(s, m, n) ==
    Len(s) >= m /\ Len(s) <= n /\ \A i \in DOMAIN s : is_upper_char(s[i])

\* some pattern of FRED_PATTERNS matches ticker_upper
MatchesFredPattern(ticker_upper) ==
    \/ UpperLetters(ticker_upper, 2, 10)
    \/ contains(ticker_upper, <<"R","A","T","E">>)
    \/ contains(ticker_upper, <<"C","P","I">>)
    \/ contains(ticker_upper, <<"G","D","P">>)

\* ticker.split('.')[-1]
LastDotPart(ticker) ==
    LET dots == {i \in DOMAIN ticker : ticker[i] = "."}
        last == CHOOSE i \in dots : \A j \in dots : j <= i
    IN  IF dots = {} THEN ticker ELSE SubSeq(ticker, last + 1, Len(ticker))

\* the general-equity chain ending in stooq, pdr whatever the rule
GeneralEquityChain_fixed_tail(fs, tail) ==
    <<"yahoo">> \o (IF "tiingo" \in fs THEN <<"tiingo">> ELSE << >>)
                \o (IF "financialdata" \in fs THEN <<"financialdata">> ELSE << >>)
                \o <<"stooq", "pdr">>

\* sources = ['yahoo']; tiingo and financialdata appended when configured; then tail
GeneralEquityChain(fs, tail) ==
    <<"yahoo">> \o (IF "tiingo" \in fs THEN <<"tiingo">> ELSE << >>)
                \o (IF "financialdata" \in fs THEN <<"financialdata">> ELSE << >>)
                \o tail

\* _route_ticker testing the caret prefix after the short upper-case token
_route_ticker_caret_late(fs, ticker) ==
    IF is_crypto_symbol(ticker) /\ "ccxt" \in fs THEN <<"ccxt">>
    ELSE IF lower(ticker) \in POLISH_STOCKS
    THEN <<"stooq", "yahoo">> \o (IF "tiingo" \in fs THEN <<"tiingo">> ELSE << >>)
                               \o <<"pdr">>
    ELSE IF lower(ticker) \in POLISH_INDICES THEN <<"stooq", "yahoo", "pdr">>
    ELSE IF upper(ticker) \in NBP_CURRENCIES /\ "nbp" \in fs
    THEN <<"nbp", "stooq", "yahoo">>
    ELSE IF UpperLetters(upper(ticker), 6, 6) THEN <<"stooq", "yahoo", "pdr">>
    ELSE IF MatchesFredPattern(upper(ticker)) /\ "fred" \in fs THEN <<"fred", "pdr">>
    ELSE IF isupper(ticker) /\ 1 <= Len(ticker) /\ Len(ticker) <= 5
    THEN GeneralEquityChain(fs, <<"pdr", "stooq">>)
    ELSE IF startswith(ticker, <<"^">>) THEN <<"yahoo", "stooq", "pdr">>
    ELSE IF contains(ticker, <<".">>)
    THEN (IF upper(LastDotPart(ticker)) = <<"W", "A">>
          THEN <<"yahoo", "stooq", "pdr">>
          ELSE GeneralEquityChain(fs, <<"pdr", "stooq">>))
    ELSE GeneralEquityChain(fs, <<"stooq", "pdr">>)

\* UnifiedMarketDataFetcher._route_ticker; fs is the key set of self.fetchers,
\* and NBP_AVAILABLE holds exactly when the nbp fetcher was constructed
_route_ticker(fs, ticker) ==
    IF is_crypto_symbol(ticker) /\ "ccxt" \in fs THEN <<"ccxt">>
    ELSE IF lower(ticker) \in POLISH_STOCKS
    THEN <<"stooq", "yahoo">> \o (IF "tiingo" \in fs THEN <<"tiingo">> ELSE << >>)
                               \o <<"pdr">>
    ELSE IF lower(ticker) \in POLISH_INDICES THEN <<"stooq", "yahoo", "pdr">>
    ELSE IF upper(ticker) \in NBP_CURRENCIES /\ "nbp" \in fs
    THEN <<"nbp", "stooq", "yahoo">>
    ELSE IF UpperLetters(upper(ticker), 6, 6) THEN <<"stooq", "yahoo", "pdr">>
    ELSE IF MatchesFredPattern(upper(ticker)) /\ "fred" \in fs THEN <<"fred", "pdr">>
    ELSE IF startswith(ticker, <<"^">>) THEN <<"yahoo", "stooq", "pdr">>
    ELSE IF isupper(ticker) /\ 1 <= Len(ticker) /\ Len(ticker) <= 5
    THEN GeneralEquityChain(fs, <<"pdr", "stooq">>)
    ELSE IF contains(ticker, <<".">>)
    THEN (IF upper(LastDotPart(ticker)) = <<"W", "A">>
          THEN <<"yahoo", "stooq", "pdr">>
          ELSE GeneralEquityChain(fs, <<"pdr", "stooq">>))
    ELSE GeneralEquityChain(fs, <<"stooq", "pdr">>)

\* _route_security: the priority list chosen by instrument type and geography
\* the priority of a security that is neither domestic nor a PLN currency pair,
\* given to every security
Priority_international(security) == <<"yahoo", "stooq", "pdr">>

Priority(security) ==
    IF security.instrument_type \in {"equity", "index"}
    THEN (IF security.country = <<"P", "L">>
          THEN <<"stooq", "yahoo", "pdr">> ELSE <<"yahoo", "stooq", "pdr">>)
    ELSE IF security.instrument_type = "currency"
    THEN (IF security.uid # None /\ contains(security.uid, <<"P","L","N">>)
          THEN <<"nbp", "stooq", "yahoo">> ELSE <<"stooq", "yahoo", "pdr">>)
    ELSE <<"yahoo", "stooq", "pdr">>

\* _route_security: whether the loop appends src to sources
RouteKeeps(fs, security, src) ==
    /\ src \in fs
    /\ \/ get_ticker(security, src) # None
       \/ /\ src = "nbp"
          /\ security.instrument_type = "currency"
          /\ security.uid # None
          /\ startswith(security.uid, <<"f","x","_">>)

\* _route_security: the ticker_map entry the loop writes for a source it appends
RoutedTicker(security, src) ==
    IF get_ticker(security, src) # None THEN get_ticker(security, src)
    ELSE slice(security.uid, 3, 6)

\* UnifiedMarketDataFetcher._route_security: sources and ticker_map
_route_security(fs, security) ==
    LET kept(src)     == RouteKeeps(fs, security, src)
        sources       == SelectSeq(Priority(security), kept)
        configured(x) == x \in fs
        fallback      == IF security.isin # None THEN security.isin ELSE security.uid
    IN  IF sources # << >>
        THEN [sources |-> sources,
              ticker_map |-> [src \in Range(sources) |-> RoutedTicker(security, src)]]
        ELSE [sources |-> SelectSeq(FETCHER_ORDER, configured),
              ticker_map |-> [src \in fs |-> fallback]]

----------------------------------------------------------------------------
(* fetch_unified.py: UnifiedMarketDataFetcher.fetch and compare_sources *)

\* what a provider returns: the rows it has for the ticker it was asked for
Data(source, ticker) == [source |-> source, ticker |-> ticker]
NoData  == Data("", None)
\* an exception: who raised it and which
Error(source, kind) == [source |-> source, kind |-> kind]
NoError == Error("", "")

\* UnifiedMarketDataFetcher._fetch_from_source.  ok is the set of providers whose
\* fetch succeeds when invoked; invoked says whether the provider was called.
_fetch_from_source(fs, ok, source, ticker) ==
    IF source \notin fs
    THEN [raised |-> TRUE, invoked |-> FALSE, error |-> Error(source, "not available"),
          value |-> NoData]
    ELSE IF source \in ok
    THEN [raised |-> FALSE, invoked |-> TRUE, error |-> NoError,
          value |-> Data(source, ticker)]
    ELSE [raised |-> TRUE, invoked |-> TRUE, error |-> Error(source, "fetch failed"),
          value |-> NoData]

\* ticker_map.get(source_name, identifier)
MapGet(ticker_map, source_name, identifier) ==
    IF source_name \in DOMAIN ticker_map THEN ticker_map[source_name] ELSE identifier

\* fetch, lines 220-243: the candidate list and the ticker map for the identifier
route(self, fs, identifier) ==
    IF get_security(self, identifier) # None
    THEN _route_security(fs, SecOf(self.securities, get_security(self, identifier)))
    ELSE [sources |-> _route_ticker(fs, identifier),
          ticker_map |-> [src \in Range(_route_ticker(fs, identifier)) |-> identifier]]

\* The frame of a running fetch: i candidates consumed, last_error, the result, and
\* the history of the call: calls, the providers invoked; errors, every failure
Frame(pc, i, last_error, result, calls, errors) ==
    [pc |-> pc, i |-> i, last_error |-> last_error, result |-> result,
     calls |-> calls, errors |-> errors]
Returned(data) == [kind |-> "returned", data |-> data, carries |-> NoError]
Raised(carries) == [kind |-> "raised", data |-> NoData, carries |-> carries]
NoResult == [kind |-> "none", data |-> NoData, carries |-> NoError]

\* the fallback loop raising the first provider failure instead of continuing
fetch_loop_raise_first(frame, fs, ok, sources, ticker_map, identifier) ==
    IF frame.i < Len(sources)
    THEN LET source_name == sources[frame.i + 1]
             ticker      == MapGet(ticker_map, source_name, identifier)
             r           == _fetch_from_source(fs, ok, source_name, ticker)
             calls       == IF r.invoked THEN Append(frame.calls, Data(source_name, ticker))
                            ELSE frame.calls
         IN  IF r.raised
             THEN Frame("done", frame.i + 1, r.error, Raised(r.error), calls,
                        Append(frame.errors, r.error))
             ELSE Frame("done", frame.i + 1, frame.last_error, Returned(r.value), calls,
                        frame.errors)
    ELSE Frame("done", frame.i, frame.last_error, Raised(frame.last_error),
               frame.calls, frame.errors)

\* the fallback loop trying a failed provider once more before moving on
fetch_loop_retry(frame, fs, ok, sources, ticker_map, identifier) ==
    IF frame.i < Len(sources)
    THEN LET source_name == sources[frame.i + 1]
             ticker      == MapGet(ticker_map, source_name, identifier)
             r           == _fetch_from_source(fs, ok, source_name, ticker)
             calls       == IF r.invoked THEN Append(frame.calls, Data(source_name, ticker))
                            ELSE frame.calls
         IN  IF r.raised
             THEN Frame("loop", frame.i + 1, r.error, NoResult,
                        IF r.invoked THEN Append(calls, Data(source_name, ticker))
                        ELSE calls,
                        Append(frame.errors, r.error))
             ELSE Frame("done", frame.i + 1, frame.last_error, Returned(r.value), calls,
                        frame.errors)
    ELSE Frame("done", frame.i, frame.last_error, Raised(frame.last_error),
               frame.calls, frame.errors)

\* the fallback loop keeping the first failure in last_error
fetch_loop_first_error(frame, fs, ok, sources, ticker_map, identifier) ==
    IF frame.i < Len(sources)
    THEN LET source_name == sources[frame.i + 1]
             ticker      == MapGet(ticker_map, source_name, identifier)
             r           == _fetch_from_source(fs, ok, source_name, ticker)
             calls       == IF r.invoked THEN Append(frame.calls, Data(source_name, ticker))
                            ELSE frame.calls
         IN  IF r.raised
             THEN Frame("loop", frame.i + 1,
                        IF frame.last_error = NoError THEN r.error ELSE frame.last_error,
                        NoResult, calls, Append(frame.errors, r.error))
             ELSE Frame("done", frame.i + 1, frame.last_error, Returned(r.value), calls,
                        frame.errors)
    ELSE Frame("done", frame.i, frame.last_error, Raised(frame.last_error),
               frame.calls, frame.errors)

\* fetch, lines 246-259: one pass of the for loop over sources, or, the list
\* consumed, the final raise
fetch_loop(frame, fs, ok, sources, ticker_map, identifier) ==
    IF frame.i < Len(sources)
    THEN LET source_name == sources[frame.i + 1]
             ticker      == MapGet(ticker_map, source_name, identifier)
             r           == _fetch_from_source(fs, ok, source_name, ticker)
             calls       == IF r.invoked THEN Append(frame.calls, Data(source_name, ticker))
                            ELSE frame.calls
         IN  IF r.raised
             THEN Frame("loop", frame.i + 1, r.error, NoResult, calls,
                        Append(frame.errors, r.error))
             ELSE Frame("done", frame.i + 1, frame.last_error, Returned(r.value), calls,
                        frame.errors)
    ELSE Frame("done", frame.i, frame.last_error, Raised(frame.last_error),
               frame.calls, frame.errors)

\* the forced source called with the identifier as given, whatever the registry holds
fetch_forced_raw_identifier(self, fs, ok, identifier, source) ==
    LET r == _fetch_from_source(fs, ok, source, identifier)
    IN  Frame("forced", 0, NoError,
              IF r.raised THEN Raised(r.error) ELSE Returned(r.value),
              IF r.invoked THEN <<Data(source, identifier)>> ELSE << >>,
              IF r.raised THEN <<r.error>> ELSE << >>)

\* fetch, lines 220-234: the source is given; the security's ticker for it, if the
\* registry knows the identifier and holds one, else the identifier; one call of
\* _fetch_from_source, whose result or exception is the result of fetch
fetch_forced(self, fs, ok, identifier, source) ==
    LET uid           == get_security(self, identifier)
        source_ticker == IF uid # None
                         THEN get_ticker(SecOf(self.securities, uid), source)
                         ELSE None
        ticker        == IF source_ticker # None THEN source_ticker ELSE identifier
        r             == _fetch_from_source(fs, ok, source, ticker)
    IN  Frame("forced", 0, NoError,
              IF r.raised THEN Raised(r.error) ELSE Returned(r.value),
              IF r.invoked THEN <<Data(source, ticker)>> ELSE << >>,
              IF r.raised THEN <<r.error>> ELSE << >>)

\* The sources a caller may force: every name the fetcher knows and one it does not
ForcedSources == Range(FETCHER_ORDER) \cup {"bloomberg"}

\* the record of a compare_sources run over the first n sources: the results
\* dict (None is NoData), the provider fetches invoked, the failures printed
Compared(results, calls, errors) ==
    [results |-> results, calls |-> calls, errors |-> errors]

\* compare_sources leaving the loop at the first failure
RECURSIVE compare_sources_stop_at_failure(_, _, _, _, _)
compare_sources_stop_at_failure(fs, ok, ticker, sources, n) ==
    IF n = 0 THEN Compared(<< >>, << >>, << >>)
    ELSE LET prev   == compare_sources_stop_at_failure(fs, ok, ticker, sources, n - 1)
             source == sources[n]
             r      == _fetch_from_source(fs, ok, source, ticker)
         IN  IF prev.errors # << >> THEN prev
             ELSE Compared([s \in DOMAIN prev.results \cup {source} |->
                               IF s = source THEN r.value ELSE prev.results[s]],
                           IF r.invoked THEN Append(prev.calls, Data(source, ticker))
                           ELSE prev.calls,
                           IF r.raised THEN Append(prev.errors, r.error)
                           ELSE prev.errors)

\* UnifiedMarketDataFetcher.compare_sources, lines 474-483: the loop over the
\* first n of sources; results[source] is the data, or None after an exception
RECURSIVE compare_sources(_, _, _, _, _)
compare_sources(fs, ok, ticker, sources, n) ==
    IF n = 0 THEN Compared(<< >>, << >>, << >>)
    ELSE LET prev   == compare_sources(fs, ok, ticker, sources, n - 1)
             source == sources[n]
             r      == _fetch_from_source(fs, ok, source, ticker)
         IN  Compared([s \in DOMAIN prev.results \cup {source} |->
                          IF s = source THEN r.value ELSE prev.results[s]],
                      IF r.invoked THEN Append(prev.calls, Data(source, ticker))
                      ELSE prev.calls,
                      IF r.raised THEN Append(prev.errors, r.error) ELSE prev.errors)

\* The source lists passed to compare_sources: two and three names, one name
\* twice, a name the fetcher does not know, none
CompareLists ==
    {<<"yahoo", "stooq">>, <<"stooq", "fred", "yahoo">>, <<"yahoo", "yahoo">>,
     <<"bloomberg", "pdr">>, << >>}

\* Identifiers passed to fetch
FetchIdentifiers ==
    {<<"p","k","o">>,
     <<"A","A","P","L">>,
     <<"B","T","C","/","U","S","D","T">>,
     <<"U","S","D">>,
     <<"U","S","D","P","L","N">>,
     <<"G","D","P">>,
     <<"^","S","P","X">>,
     <<"X","T","B",".","W","A">>,
     <<"A","A","P","L",".","U","S">>,
     <<"a","a","p","l">>,
     <<"f","x","_","U","S","D","P","L","N">>,
     <<"i","d","x","_","W","I","G","2","0">>,
     ISIN_A}

\* The provider configurations: every fetcher; the ones that need no key; two; none
FetcherConfigs ==
    {Range(FETCHER_ORDER), {"stooq", "nbp", "yahoo", "pdr"}, {"yahoo", "pdr"}, {}}

\* The registry files a fetcher may start on
FetchFiles ==
    {NoFile,
     File(<<to_dict(Security(UID_ISIN_A, ISIN_A, "equity", <<"P","L">>,
                             [NoTickers EXCEPT !["stooq"] = <<"x","t","b">>,
                                               !["yahoo"] = TICKER_XTB], "manual")),
            to_dict(Security(<<"f","x","_","U","S","D","P","L","N">>, None, "currency", <<"P","L">>,
                             NoTickers, "manual")),
            to_dict(Security(<<"i","d","x","_","W","I","G","2","0">>, None, "index", <<"P","L">>,
                             NoTickers, "manual"))>>)}

FetchFrame == Frame(f_pc, f_i, f_last_error, f_result, f_calls, f_errors)

ApplyFrame(frame) ==
    /\ f_pc' = frame.pc
    /\ f_i' = frame.i
    /\ f_last_error' = frame.last_error
    /\ f_result' = frame.result
    /\ f_calls' = frame.calls
    /\ f_errors' = frame.errors

FetchInit ==
    /\ fetchers \in FetcherConfigs
    /\ csv \in FetchFiles
    /\ securities = _load(csv).securities
    /\ ticker_index = _load(csv).ticker_index
    /\ given = _load(csv).given
    /\ auto_discover = TRUE
    /\ lastOp = Op("init", None, "", None, FALSE, "", None, FALSE, None, FALSE, 0, 0)
    /\ nops = 0
    /\ f_pc = "idle"
    /\ f_id = None
    /\ f_sources = << >>
    /\ f_tmap = << >>
    /\ f_ok = {}
    /\ f_i = 0
    /\ f_calls = << >>
    /\ f_errors = << >>
    /\ f_last_error = NoError
    /\ f_result = NoResult
    /\ f_source = ""
    /\ f_results = << >>

\* fetcher.fetch(identifier): resolve and route (lines 220-243)
FetchCall ==
    \E identifier \in FetchIdentifiers :
        /\ f_pc = "idle"
        /\ f_id' = identifier
        /\ f_sources' = route(Self, fetchers, identifier).sources
        /\ f_tmap' = route(Self, fetchers, identifier).ticker_map
        /\ f_ok' \in SUBSET (Range(route(Self, fetchers, identifier).sources) \cap fetchers)
        /\ f_pc' = "loop"
        /\ UNCHANGED <<fetchers, f_i, f_calls, f_errors, f_last_error, f_result>>
        /\ UNCHANGED <<f_source, f_results>>
        /\ UNCHANGED <<regVars, provVars, adjVars, wrVars>>

\* one pass of the for loop: the next candidate is tried
FetchTry ==
    /\ f_pc = "loop"
    /\ f_i < Len(f_sources)
    /\ ApplyFrame(fetch_loop(FetchFrame, fetchers, f_ok, f_sources, f_tmap, f_id))
    /\ UNCHANGED <<regVars, provVars, adjVars, wrVars, fetchers, f_id, f_sources, f_tmap, f_ok>>
    /\ UNCHANGED <<f_source, f_results>>

\* the for loop is over: raise ValueError
FetchExhausted ==
    /\ f_pc = "loop"
    /\ f_i >= Len(f_sources)
    /\ ApplyFrame(fetch_loop(FetchFrame, fetchers, f_ok, f_sources, f_tmap, f_id))
    /\ UNCHANGED <<regVars, provVars, adjVars, wrVars, fetchers, f_id, f_sources, f_tmap, f_ok>>
    /\ UNCHANGED <<f_source, f_results>>

\* fetcher.fetch(identifier, source=source), lines 220-234
FetchForced ==
    \E identifier \in FetchIdentifiers, source \in ForcedSources :
        /\ f_pc = "idle"
        /\ f_id' = identifier
        /\ f_source' = source
        /\ f_ok' \in SUBSET ({source} \cap fetchers)
        /\ ApplyFrame(fetch_forced(Self, fetchers, f_ok', identifier, source))
        /\ UNCHANGED <<fetchers, f_sources, f_tmap, f_results>>
        /\ UNCHANGED <<regVars, provVars, adjVars, wrVars>>

\* fetcher.compare_sources(ticker, sources), lines 458-483
CompareSources ==
    \E ticker \in FetchIdentifiers, sources \in CompareLists :
        /\ f_pc = "idle"
        /\ f_id' = ticker
        /\ f_sources' = sources
        /\ f_ok' \in SUBSET (Range(sources) \cap fetchers)
        /\ LET c == compare_sources(fetchers, f_ok', ticker, sources, Len(sources))
           IN  /\ f_results' = c.results
               /\ f_calls' = c.calls
               /\ f_errors' = c.errors
        /\ f_pc' = "compared"
        /\ UNCHANGED <<fetchers, f_tmap, f_i, f_last_error, f_result, f_source>>
        /\ UNCHANGED <<regVars, provVars, adjVars, wrVars>>

FetchNext ==
    \/ FetchCall
    \/ FetchTry
    \/ FetchExhausted
    \/ FetchForced
    \/ CompareSources

----------------------------------------------------------------------------
(* utils.py: the shared cache manager and rate limiter, and the date helper *)

\* hours a cache entry stays valid, and the rate limiter's minimum spacing, in
\* ticks of the model's clock
CacheHours == 2
MinDelay == 1

Max(a, b) == IF a >= b THEN a ELSE b

\* str(x) inside an f-string
Str(x) == IF x = None THEN <<"N","o","n","e">> ELSE x

\* normalize_date: YYYY-MM-DD or YYYYMMDD to YYYYMMDD
normalize_date(d) == LET digit(c) == c # "-" IN SelectSeq(d, digit)

\* what a provider fetch hands back: the rows of a ticker
Payload(provider, ticker, rows) == [provider |-> provider, ticker |-> ticker, rows |-> rows]
NoPayload == Payload("", None, << >>)

Entry(provider, cache_id, payload, written) ==
    [provider |-> provider, cache_id |-> cache_id, payload |-> payload, written |-> written]

\* cache.get(provider, cache_id, max_age_hours): the stored payload when its write
\* time is within max_age_hours of now, else None
cache_get(store, provider, cache_id, max_age_hours, t) ==
    LET fresh == {e \in store : /\ e.provider = provider
                                /\ e.cache_id = cache_id
                                /\ t - e.written < max_age_hours}
    IN  IF fresh = {} THEN [hit |-> FALSE, payload |-> NoPayload]
        ELSE [hit |-> TRUE, payload |-> (CHOOSE e \in fresh : TRUE).payload]

\* cache.set(provider, cache_id, payload): overwrites unconditionally
cache_set(store, provider, cache_id, payload, t) ==
    {e \in store : ~(e.provider = provider /\ e.cache_id = cache_id)}
        \cup {Entry(provider, cache_id, payload, t)}

\* rate_limiter.wait(provider): block until MinDelay after the provider's last
\* recorded call, then stamp the new call time
rate_limiter_wait(calls, provider, t) ==
    LET at == IF calls[provider].called THEN Max(t, calls[provider].at + MinDelay) ELSE t
    IN  [now |-> at,
         last_call |-> [calls EXCEPT ![provider] = [called |-> TRUE, at |-> at]]]

\* create_identifier(ticker, start, end, source)
create_identifier(ticker, start, end, source) ==
    ticker \o <<"_">> \o Str(start) \o <<"_">> \o Str(end)

----------------------------------------------------------------------------
(* fetch_nbp.py, fetch_tiingo.py, fetch_financialdata.py: one provider fetch *)

PROVIDERS == {"nbp", "tiingo", "financialdata"}

\* rows per page of a paginated FinancialData endpoint (300 in ENDPOINTS), and the
\* number of full pages the server holds at most
PageLimit == 2
MaxPages == 2
\* provider fetches in one run, and the last tick at which one may start
MaxCalls == 2
MaxTime == 2

NoLimit == 0
\* FinancialDataFetcher.ENDPOINTS: endpoint -> page limit (NoLimit for None)
ENDPOINTS == [e \in {"stock-prices", "otc-volume"} |->
                 IF e = "stock-prices" THEN PageLimit ELSE NoLimit]

Config(use_cache, cache_hours) == [use_cache |-> use_cache, cache_hours |-> cache_hours]
Request(provider, ticker, start, option, paginate) ==
    [provider |-> provider, ticker |-> ticker, start |-> start, option |-> option,
     paginate |-> paginate]
NoRequest == Request("", None, None, "", FALSE)

Outcome(kind, payload, error, from_cache) ==
    [kind |-> kind, payload |-> payload, error |-> error, from_cache |-> from_cache]
NoOutcome == Outcome("none", NoPayload, "", FALSE)

NeverCalled == [q \in PROVIDERS |-> [called |-> FALSE, at |-> 0]]

\* the string an option name is in a cache id
OptionStr(option) ==
    IF option = "A" THEN <<"A">>
    ELSE IF option = "stock-prices" THEN <<"s","t","o","c","k","-","p","r","i","c","e","s">>
    ELSE IF option = "otc-volume" THEN <<"o","t","c","-","v","o","l","u","m","e">>
    ELSE IF option = "bogus" THEN <<"b","o","g","u","s">>
    ELSE << >>

\* NBPFetcher.fetch: cache_id (end_date is not given)
nbp_cache_id(req) ==
    upper(req.ticker) \o <<"_">> \o OptionStr(req.option) \o <<"_">>
        \o Str(IF req.start # None THEN normalize_date(req.start) ELSE None)
        \o <<"_">> \o Str(None)

\* TiingoFetcher.fetch: cache_id
tiingo_cache_id(req) ==
    create_identifier(upper(req.ticker),
                      IF req.start # None THEN normalize_date(req.start) ELSE None,
                      None, "tiingo")

\* FinancialDataFetcher.fetch: cache_id
financialdata_cache_id(req) ==
    create_identifier(upper(req.ticker) \o <<"_">> \o OptionStr(req.option),
                      IF req.start # None THEN normalize_date(req.start) ELSE None,
                      None, "financialdata")

CacheId(req) ==
    IF req.provider = "nbp" THEN nbp_cache_id(req)
    ELSE IF req.provider = "tiingo" THEN tiingo_cache_id(req)
    ELSE financialdata_cache_id(req)

\* The frame of a running provider fetch together with the shared cache, rate
\* limiter and clock; trace is the history of the call
PF(pc, trace, offset, data, result, store, calls, t) ==
    [pc |-> pc, trace |-> trace, offset |-> offset, data |-> data, result |-> result,
     cache |-> store, last_call |-> calls, now |-> t]

\* the provider fetch pacing itself before it looks in the cache
fetch_begin_wait_first(cfg, store, calls, t, req) ==
    LET w      == rate_limiter_wait(calls, req.provider, t)
        cached == cache_get(store, req.provider, CacheId(req), cfg.cache_hours, w.now)
    IN  IF cfg.use_cache /\ cached.hit
        THEN PF("done", <<"wait", "cache_get">>, 0, << >>,
                Outcome("returned", cached.payload, "", TRUE), store, w.last_call, w.now)
        ELSE PF("request", <<"wait">> \o (IF cfg.use_cache THEN <<"cache_get">> ELSE << >>),
                0, << >>, NoOutcome, store, w.last_call, w.now)

\* fetch up to the try block (NBPFetcher.fetch lines 79-96, TiingoFetcher.fetch
\* 99-119, FinancialDataFetcher.fetch 262-276 and _request 179-183): the cache
\* check, and the return on a hit
fetch_begin(cfg, store, calls, t, req) ==
    LET cached == cache_get(store, req.provider, CacheId(req), cfg.cache_hours, t)
        trace  == IF cfg.use_cache THEN <<"cache_get">> ELSE << >>
    IN  IF cfg.use_cache /\ cached.hit
        THEN PF("done", trace, 0, << >>, Outcome("returned", cached.payload, "", TRUE),
                store, calls, t)
        ELSE IF req.provider = "financialdata" /\ req.option \notin DOMAIN ENDPOINTS
        THEN PF("done", trace, 0, << >>,
                Outcome("raised", NoPayload, "ValueError: unknown endpoint", FALSE),
                store, calls, t)
        ELSE PF("wait", trace, 0, << >>, NoOutcome, store, calls, t)

\* the fetch stamping its call without blocking for the provider's minimum delay
fetch_wait_no_block(pf, req) ==
    PF("request", Append(pf.trace, "wait"), pf.offset, pf.data, pf.result, pf.cache,
       [pf.last_call EXCEPT ![req.provider] = [called |-> TRUE, at |-> pf.now]], pf.now)

\* self.rate_limiter.wait(provider) (NBP line 100, Tiingo 122, FinancialData 198)
fetch_wait(pf, req) ==
    LET w == rate_limiter_wait(pf.last_call, req.provider, pf.now)
    IN  PF("request", Append(pf.trace, "wait"), pf.offset, pf.data, pf.result,
           pf.cache, w.last_call, w.now)

\* what requests.get brings back: the status, the JSON shape ("garbled": a body
\* response.json() cannot parse), the number of rows
Response(status, shape, n) == [status |-> status, shape |-> shape, n |-> n]

\* the fetch raising after it has stored the failure in the cache
Fail_cached(pf, trace, error) ==
    PF("done", Append(trace, "cache_set"), pf.offset, pf.data,
       Outcome("raised", NoPayload, error, FALSE),
       cache_set(pf.cache, "nbp", None, NoPayload, pf.now), pf.last_call, pf.now)

\* the fetch raising
Fail(pf, trace, error) ==
    PF("done", trace, pf.offset, pf.data, Outcome("raised", NoPayload, error, FALSE),
       pf.cache, pf.last_call, pf.now)

\* the fetch returning df, written to the cache under the ticker as given
Succeed_other_key(cfg, pf, req, trace, rows) ==
    LET payload == Payload(req.provider, upper(req.ticker), rows)
    IN  PF("done", IF cfg.use_cache THEN Append(trace, "cache_set") ELSE trace,
           pf.offset, rows, Outcome("returned", payload, "", FALSE),
           IF cfg.use_cache
           THEN cache_set(pf.cache, req.provider, req.ticker, payload, pf.now)
           ELSE pf.cache,
           pf.last_call, pf.now)

\* the fetch returning df, written to the cache first when caching is on
Succeed(cfg, pf, req, trace, rows) ==
    LET payload == Payload(req.provider, upper(req.ticker), rows)
    IN  PF("done", IF cfg.use_cache THEN Append(trace, "cache_set") ELSE trace,
           pf.offset, rows, Outcome("returned", payload, "", FALSE),
           IF cfg.use_cache
           THEN cache_set(pf.cache, req.provider, CacheId(req), payload, pf.now)
           ELSE pf.cache,
           pf.last_call, pf.now)

\* NBPFetcher.fetch from requests.get to the end
nbp_response(cfg, pf, req, r) ==
    LET trace == Append(pf.trace, "request")
    IN  IF r.status = 404 THEN Fail(pf, trace, "ValueError: not found")
        ELSE IF r.status # 200 THEN Fail(pf, trace, "HTTPError")
        ELSE IF r.shape = "garbled" THEN Fail(pf, trace, "JSONDecodeError")
        ELSE IF r.n = 0 THEN Fail(pf, trace, "ValueError: no data")
        ELSE Succeed(cfg, pf, req, trace, [k \in 1..r.n |-> k])

\* TiingoFetcher.fetch from requests.get to the end
tiingo_response(cfg, pf, req, r) ==
    LET trace == Append(pf.trace, "request")
    IN  IF r.status = 404 THEN Fail(pf, trace, "ValueError: not found")
        ELSE IF r.status = 401 THEN Fail(pf, trace, "ValueError: invalid key")
        ELSE IF r.status = 429 THEN Fail(pf, trace, "ValueError: rate limit")
        ELSE IF r.status # 200 THEN Fail(pf, trace, "HTTPError")
        ELSE IF r.shape = "garbled" THEN Fail(pf, trace, "JSONDecodeError")
        ELSE IF r.n = 0 THEN Fail(pf, trace, "ValueError: no data")
        ELSE Succeed(cfg, pf, req, trace, [k \in 1..r.n |-> k])

\* FinancialDataFetcher._request from requests.get to the end of one pass of the
\* while loop, and, the loop left, the rest of FinancialDataFetcher.fetch
financialdata_response(cfg, pf, req, r) ==
    LET trace      == Append(pf.trace, "request")
        page_limit == ENDPOINTS[req.option]
        all_data   == IF r.shape = "list"
                      THEN pf.data \o [k \in 1..r.n |-> pf.offset + k]
                      ELSE Append(pf.data, 0)
    IN  IF r.status = 401 THEN Fail(pf, trace, "ValueError: invalid key")
        ELSE IF r.status = 403 THEN Fail(pf, trace, "ValueError: access denied")
        ELSE IF r.status = 429 THEN Fail(pf, trace, "ValueError: rate limit")
        ELSE IF r.status # 200 THEN Fail(pf, trace, "HTTPError")
        ELSE IF r.shape = "garbled" THEN Fail(pf, trace, "JSONDecodeError")
        ELSE IF \/ ~req.paginate
                \/ page_limit = NoLimit
                \/ (r.shape = "list" /\ r.n < page_limit)
        THEN (IF all_data = << >> THEN Fail(pf, trace, "ValueError: no data")
              ELSE Succeed(cfg, pf, req, trace, all_data))
        ELSE PF("wait", trace, pf.offset + page_limit, all_data, pf.result,
                pf.cache, pf.last_call, pf.now)

fetch_response(cfg, pf, req, r) ==
    IF req.provider = "nbp" THEN nbp_response(cfg, pf, req, r)
    ELSE IF req.provider = "tiingo" THEN tiingo_response(cfg, pf, req, r)
    ELSE financialdata_response(cfg, pf, req, r)

\* Inputs
START_DATE == <<"2","0","2","4","-","0","1","-","0","5">>
Requests ==
    {Request(q, t, d, IF q = "nbp" THEN "A" ELSE "", FALSE) :
        q \in {"nbp", "tiingo"}, t \in {<<"u","s","d">>, <<"U","S","D">>},
        d \in {None, START_DATE}}
    \cup {Request("financialdata", t, None, e, pg) :
            t \in {<<"u","s","d">>, <<"U","S","D">>},
            e \in {"stock-prices", "otc-volume", "bogus"}, pg \in BOOLEAN}
Configs == {Config(u, h) : u \in BOOLEAN, h \in {0, CacheHours}}
Responses ==
    {Response(st, "list", 0) : st \in {401, 403, 404, 429, 500}}
    \cup {Response(200, "list", n) : n \in 0..PageLimit}
    \cup {Response(200, "dict", 1), Response(200, "garbled", 0)}

\* the server holds at most MaxPages full pages
WithinPages(pf, req, r) ==
    fetch_response(p_cfg, pf, req, r).pc = "wait" =>
        pf.offset + PageLimit <= MaxPages * PageLimit

ProvFrame == PF(p_pc, p_trace, p_offset, p_data, p_result, cache, last_call, now)

ApplyPF(pf) ==
    /\ p_pc' = pf.pc
    /\ p_trace' = pf.trace
    /\ p_offset' = pf.offset
    /\ p_data' = pf.data
    /\ p_result' = pf.result
    /\ cache' = pf.cache
    /\ last_call' = pf.last_call
    /\ now' = pf.now

RegIdle ==
    /\ csv = NoFile
    /\ securities = << >>
    /\ ticker_index = << >>
    /\ given = << >>
    /\ auto_discover = FALSE
    /\ lastOp = Op("init", None, "", None, FALSE, "", None, FALSE, None, FALSE, 0, 0)
    /\ nops = 0

ProvInit ==
    /\ p_cfg \in Configs
    /\ p_n = 0
    /\ p_pc = "idle"
    /\ p_req = NoRequest
    /\ p_trace = << >>
    /\ p_offset = 0
    /\ p_data = << >>
    /\ p_result = NoOutcome
    /\ cache = {}
    /\ last_call = NeverCalled
    /\ now = 0

\* fetcher.fetch(ticker, start_date, ...) is called
ProvCall ==
    \E req \in Requests :
        /\ p_pc \in {"idle", "done"}
        /\ p_n < MaxCalls
        /\ now < MaxTime
        /\ p_n' = p_n + 1
        /\ p_req' = req
        /\ ApplyPF(fetch_begin(p_cfg, cache, last_call, now, req))
        /\ UNCHANGED <<p_cfg, regVars, fetchVars, adjVars, wrVars>>

\* the fetch blocks in the rate limiter
ProvWait ==
    /\ p_pc = "wait"
    /\ ApplyPF(fetch_wait(ProvFrame, p_req))
    /\ UNCHANGED <<p_cfg, p_n, p_req, regVars, fetchVars, adjVars, wrVars>>

\* the request is made and its response handled
ProvRequest ==
    \E r \in Responses :
        /\ p_pc = "request"
        /\ WithinPages(ProvFrame, p_req, r)
        /\ ApplyPF(fetch_response(p_cfg, ProvFrame, p_req, r))
        /\ UNCHANGED <<p_cfg, p_n, p_req, regVars, fetchVars, adjVars, wrVars>>

\* time passes between two fetches
Tick ==
    /\ p_pc \in {"idle", "done"}
    /\ now < MaxTime
    /\ now' = now + 1
    /\ UNCHANGED <<p_cfg, p_n, p_pc, p_req, p_trace, p_offset, p_data, p_result, cache,
                   last_call, regVars, fetchVars, adjVars, wrVars>>

ProvNext ==
    \/ ProvCall
    \/ ProvWait
    \/ ProvRequest
    \/ Tick

----------------------------------------------------------------------------
(* The corporate-actions adjuster: adjust(prices, events) *)

\* dates are day numbers 1..MaxDate; a call has at most MaxEvents events
MaxDate == 3
MaxEvents == 2

\* a corporate-action event: the adjuster reads its date and its divisor
Event(date, divisor) == [date |-> date, divisor |-> divisor]
\* an output row; AdjustedClose = Close / CumulativeDivisor is kept as the exact
\* fraction num / den
Row(close, cumulative) ==
    [Close |-> close, CumulativeDivisor |-> cumulative,
     AdjustedClose |-> [num |-> close, den |-> cumulative]]

\* the event divisor of a date: the product of the divisors of the events on
\* that date, 1 when there is none
RECURSIVE EventDivisor(_, _)
EventDivisor(events, d) ==
    IF events = << >> THEN 1
    ELSE (IF Head(events).date = d THEN Head(events).divisor ELSE 1)
            * EventDivisor(Tail(events), d)

\* the running sum, not product, of the event divisors from the most recent date
RECURSIVE CumulativeSum(_, _, _)
CumulativeSum(events, dates, d) ==
    LET later == {x \in dates : x > d}
    IN  EventDivisor(events, d)
            + (IF later = {} THEN 0
               ELSE CumulativeSum(events, dates,
                                  CHOOSE x \in later : \A y \in later : x <= y))

\* adjust accumulating with a running sum
adjust_cumsum(prices, events) ==
    LET dates == DOMAIN prices \cup {events[i].date : i \in DOMAIN events}
    IN  [d \in DOMAIN prices |-> Row(prices[d], CumulativeSum(events, dates, d))]

\* the scan from the most recent date to the oldest: the cumulative divisor of a
\* date is its own event divisor times the cumulative divisor of the next later
\* date of the union
RECURSIVE CumulativeDivisor(_, _, _)
CumulativeDivisor(events, dates, d) ==
    LET later == {x \in dates : x > d}
    IN  EventDivisor(events, d)
            * (IF later = {} THEN 1
               ELSE CumulativeDivisor(events, dates,
                                      CHOOSE x \in later : \A y \in later : x <= y))

\* adjust scanning the dates of the price rows only
adjust_price_dates_only(prices, events) ==
    [d \in DOMAIN prices |-> Row(prices[d], CumulativeDivisor(events, DOMAIN prices, d))]

\* adjust(prices, events): the union of the dates, the cumulative divisors, the
\* join back onto prices by date
adjust(prices, events) ==
    LET dates == DOMAIN prices \cup {events[i].date : i \in DOMAIN events}
    IN  [d \in DOMAIN prices |-> Row(prices[d], CumulativeDivisor(events, dates, d))]

AdjIdle ==
    /\ a_pc = "idle"
    /\ a_prices = << >>
    /\ a_events = << >>
    /\ a_out = << >>

\* adjuster.adjust(prices, events)
Adjust ==
    /\ a_pc = "idle"
    /\ a_pc' = "done"
    /\ a_out' = adjust(a_prices, a_events)
    /\ UNCHANGED <<a_prices, a_events, regVars, fetchVars, provVars, wrVars>>

----------------------------------------------------------------------------
(* Two processes on one security_master.csv.  Each constructs its own        *)
(* TickerRegistry (which loads the file) and then calls add_ticker_mapping   *)
(* with persist on (which rewrites the file from its own memory).  Nothing   *)
(* in ticker_registry.py locks the file or re-reads it before writing.       *)

Writers == {1, 2}

NoMutation == [id |-> None, src |-> "", alias |-> None]
NoOut == [result |-> FALSE, raised |-> FALSE, io |-> ""]
NoInstance == [securities |-> << >>, ticker_index |-> << >>, csv |-> NoFile,
               calls |-> 0, writes |-> 0, given |-> << >>]

\* what the two processes pass to add_ticker_mapping: the one security of the
\* file named by its uid or its ISIN, and an alias for a provider of their own
WriterMutations ==
    {[id |-> i, src |-> s, alias |-> t] :
        i \in {UID_ISIN_A, ISIN_A}, s \in {"yahoo", "bloomberg", "stooq"}, t \in MapTickers}

\* the file both start from
WriterFile ==
    File(<<to_dict(Security(UID_ISIN_A, ISIN_A, "equity", <<"P","L">>, NoTickers, "manual"))>>)

WrIdle ==
    /\ w_mode = "serial"
    /\ w_pc = [w \in Writers |-> "start"]
    /\ w_self = [w \in Writers |-> NoInstance]
    /\ w_mut = [w \in Writers |-> NoMutation]
    /\ w_out = [w \in Writers |-> NoOut]

WrInit ==
    /\ w_mode \in {"interleaved", "serial"}
    /\ w_pc = [w \in Writers |-> "start"]
    /\ w_self = [w \in Writers |-> NoInstance]
    /\ w_mut \in {m \in [Writers -> WriterMutations] : m[1].src # m[2].src}
    /\ w_out = [w \in Writers |-> NoOut]
    /\ csv = WriterFile
    /\ securities = << >>
    /\ ticker_index = << >>
    /\ given = << >>
    /\ auto_discover = FALSE
    /\ lastOp = Op("init", None, "", None, FALSE, "", None, FALSE, None, FALSE, 0, 0)
    /\ nops = 0

\* process w: registry = TickerRegistry(csv_path), which runs _load.  When the
\* processes are run one at a time, w is started only while no other process is
\* between its load and its write
WLoad(w) ==
    /\ w_pc[w] = "start"
    /\ w_mode = "serial" => \A v \in Writers \ {w} : w_pc[v] \in {"start", "done"}
    /\ w_self' = [w_self EXCEPT ![w] = _load(csv)]
    /\ w_pc' = [w_pc EXCEPT ![w] = "loaded"]
    /\ UNCHANGED <<w_mode, w_mut, w_out, regVars, fetchVars, provVars, adjVars>>

\* process w: registry.add_ticker_mapping(id, src, alias), persist left True; the
\* file _save writes to is the file as it is now
WAddMapping(w) ==
    \E io \in {"ok", "open_error"} :
        LET r == add_ticker_mapping([w_self[w] EXCEPT !.csv = csv],
                                    w_mut[w].id, w_mut[w].src, w_mut[w].alias, TRUE, io)
        IN  /\ w_pc[w] = "loaded"
            /\ w_self' = [w_self EXCEPT ![w] = r.self]
            /\ csv' = r.self.csv
            /\ w_out' = [w_out EXCEPT ![w] = [result |-> r.result, raised |-> r.raised,
                                              io |-> io]]
            /\ w_pc' = [w_pc EXCEPT ![w] = "done"]
            /\ UNCHANGED <<w_mode, w_mut, securities, ticker_index, auto_discover, lastOp,
                           given, nops, fetchVars, provVars, adjVars>>

WritersNext == \E w \in Writers : WLoad(w) \/ WAddMapping(w)

----------------------------------------------------------------------------
(* Specifications *)

FetchIdle ==
    /\ fetchers = {}
    /\ f_pc = "idle"
    /\ f_id = None
    /\ f_sources = << >>
    /\ f_tmap = << >>
    /\ f_ok = {}
    /\ f_i = 0
    /\ f_calls = << >>
    /\ f_errors = << >>
    /\ f_last_error = NoError
    /\ f_result = NoResult
    /\ f_source = ""
    /\ f_results = << >>

ProvIdle ==
    /\ p_cfg = Config(FALSE, 0)
    /\ p_n = 0
    /\ p_pc = "idle"
    /\ p_req = NoRequest
    /\ p_trace = << >>
    /\ p_offset = 0
    /\ p_data = << >>
    /\ p_result = NoOutcome
    /\ cache = {}
    /\ last_call = NeverCalled
    /\ now = 0

\* the registry alone: any sequence of at most MaxOps calls
RegistryInit == RegInit /\ FetchIdle /\ ProvIdle /\ AdjIdle /\ WrIdle
SpecRegistry == RegistryInit /\ [][RegNext]_vars

\* one fetch call on a fetcher whose registry was loaded from a file
FetchSpecInit == FetchInit /\ ProvIdle /\ AdjIdle /\ WrIdle
SpecFetch == FetchSpecInit /\ [][FetchNext]_vars

\* provider fetches, one after another, on the shared cache and rate limiter
ProviderInit == ProvInit /\ RegIdle /\ FetchIdle /\ AdjIdle /\ WrIdle
SpecProvider == ProviderInit /\ [][ProvNext]_vars

\* one call of the adjuster, on any price series over some of the dates and any
\* series of up to MaxEvents events
AdjustInit ==
    /\ a_pc = "idle"
    /\ a_prices \in UNION {[D -> {6, 12}] : D \in SUBSET (1..MaxDate)}
    /\ a_events \in UNION {[1..n -> {Event(d, v) : d \in 1..MaxDate, v \in {2, 3}}] :
                               n \in 0..MaxEvents}
    /\ a_out = << >>
    /\ RegIdle /\ FetchIdle /\ ProvIdle /\ WrIdle

SpecAdjust == AdjustInit /\ [][Adjust]_vars

\* a registry constructed on one of the files of LoadFiles
LoadInit ==
    /\ csv \in LoadFiles
    /\ securities = _load(csv).securities
    /\ ticker_index = _load(csv).ticker_index
    /\ given = _load(csv).given
    /\ auto_discover = FALSE
    /\ lastOp = Op("init", None, "", None, FALSE, "", None, FALSE, None, FALSE, 0, 0)
    /\ nops = 0
    /\ FetchIdle /\ ProvIdle /\ AdjIdle /\ WrIdle

\* the registry constructed on, and reloaded from, a file that may hold rows
\* without uid and rows the reader cannot read
SpecLoad == LoadInit /\ [][Reload]_vars

\* two processes, each loading the file and then adding one alias with persist
WritersInit == WrInit /\ FetchIdle /\ ProvIdle /\ AdjIdle
SpecWriters == WritersInit /\ [][WritersNext]_vars

----------------------------------------------------------------------------
(* Claims about the registry, checked under SpecRegistry *)

\* ISIN shape as the specification words it: 12 characters, 2 letters then 10
\* letters or digits
IsinShape(s) ==
    /\ Len(s) = 12
    /\ \A i \in 1..2 : is_alpha_char(s[i])
    /\ \A i \in 3..12 : is_alnum_char(s[i])

\* the four lookup steps of the specification, each giving a uid or None
StepUid(self, identifier) ==
    IF \E i \in DOMAIN self.securities : self.securities[i].uid = identifier
    THEN identifier ELSE None
StepIsin(self, identifier) ==
    IF IsinShape(identifier) THEN StepUid(self, ISIN_PREFIX \o identifier) ELSE None
StepUpper(self, identifier) ==
    IF upper(identifier) \in DOMAIN self.ticker_index
    THEN self.ticker_index[upper(identifier)] ELSE None
StepLower(self, identifier) ==
    IF lower(identifier) \in DOMAIN self.ticker_index
    THEN self.ticker_index[lower(identifier)] ELSE None
FirstMatch(self, identifier) ==
    IF StepUid(self, identifier) # None THEN StepUid(self, identifier)
    ELSE IF StepIsin(self, identifier) # None THEN StepIsin(self, identifier)
    ELSE IF StepUpper(self, identifier) # None THEN StepUpper(self, identifier)
    ELSE StepLower(self, identifier)

\* C5: get_security(identifier) returns the result of the first matching step in the
\* order exact uid, "isin_" + identifier for an ISIN-shaped identifier, upper-cased
\* index key, lower-cased index key; it returns null when no step matches.
C5_LookupOrder ==
    lastOp.op = "get_security" => lastOp.result = FirstMatch(Self, lastOp.id)

\* C5 witness: a lookup where the ISIN step and the upper-case index step both match,
\* on different securities, and the ISIN step's security was returned
C5_Witness ==
    /\ lastOp.op = "get_security"
    /\ StepUid(Self, lastOp.id) = None
    /\ StepIsin(Self, lastOp.id) # None
    /\ StepUpper(Self, lastOp.id) # None
    /\ StepUpper(Self, lastOp.id) # StepIsin(Self, lastOp.id)
    /\ lastOp.result = StepIsin(Self, lastOp.id)

\* C6: for a well-formed ISIN that nothing in the registry holds, get_security returns
\* null, and one convert_ticker call with auto-discovery enabled makes exactly one
\* call of the discovery delegate.
C6_OneDelegateCall ==
    (/\ lastOp.op = "convert_ticker"
     /\ IsinShape(lastOp.id)
     /\ lastOp.absent
     /\ auto_discover)
    => (lastOp.resolved = None /\ lastOp.lookups = 1)

\* C6 witness: such a call, whose single lookup found a ticker that was registered
C6_Witness ==
    /\ lastOp.op = "convert_ticker"
    /\ IsinShape(lastOp.id)
    /\ lastOp.absent
    /\ auto_discover
    /\ lastOp.lookups = 1
    /\ lastOp.result = TICKER_XTB
    /\ get_security(Self, lastOp.id) = ISIN_PREFIX \o lastOp.id

\* the aliases the security registered under uid holds
AliasesOf(self, uid) ==
    {SecOf(self.securities, uid).tickers[s] :
        s \in {x \in SourceType : SecOf(self.securities, uid).tickers[x] # None}}

\* an exact-uid or ISIN step that answers for the string with another security
Shadowed(self, form, uid) ==
    \/ StepUid(self, form) \notin {None, uid}
    \/ StepIsin(self, form) \notin {None, uid}

\* C7 as stated: after registering a security with a non-empty alias for any provider,
\* resolving the alias in upper case and in lower case both return that security.
C7_AliasBothCases ==
    lastOp.op = "register_security" =>
        \A a \in AliasesOf(Self, lastOp.id) :
            /\ get_security(Self, upper(a)) = lastOp.id
            /\ get_security(Self, lower(a)) = lastOp.id

\* C7 amended: ... both return that security, unless the form resolved is itself the
\* uid of another security (or an ISIN whose "isin_" uid is another security), which
\* get_security answers first.
C7_AliasBothCasesUnshadowed ==
    lastOp.op = "register_security" =>
        \A a \in AliasesOf(Self, lastOp.id) :
            /\ ~Shadowed(Self, upper(a), lastOp.id)
                    => get_security(Self, upper(a)) = lastOp.id
            /\ ~Shadowed(Self, lower(a), lastOp.id)
                    => get_security(Self, lower(a)) = lastOp.id

\* C7 witness: a security registered with a lower-case alias for a provider other than
\* stooq, while another security held that alias, resolves from both forms
C7_Witness ==
    /\ lastOp.op = "register_security"
    /\ SecOf(securities, lastOp.id).tickers["nbp"] = TICKER_pko
    /\ Len(securities) = 2
    /\ \E i \in DOMAIN securities :
          securities[i].uid # lastOp.id /\ securities[i].tickers["stooq"] = TICKER_pko
    /\ get_security(Self, TICKER_PKO) = lastOp.id
    /\ get_security(Self, TICKER_pko) = lastOp.id

\* C8: in every reachable registry state every non-empty alias of every security is a
\* key of the ticker index under its upper-cased form.
C8_AliasesIndexed ==
    \A i \in DOMAIN securities : \A s \in SourceType :
        securities[i].tickers[s] # None
            => upper(securities[i].tickers[s]) \in DOMAIN ticker_index

\* C8 witness: an alias written by add_ticker_mapping over an older one, after a
\* discovery or a registration, is indexed
C8_Witness ==
    /\ lastOp.op = "add_ticker_mapping"
    /\ lastOp.result = TRUE
    /\ lastOp.alias = TICKER_XTB
    /\ SecOf(securities, lastOp.resolved).tickers[lastOp.src] = TICKER_XTB
    /\ TICKER_XTB \in DOMAIN ticker_index
    /\ Len(securities) = 2

Persisted == csv = File([i \in DOMAIN securities |-> to_dict(securities[i])])

\* the mutation of the last add_ticker_mapping call is in memory
MappingInMemory ==
    /\ SecOf(securities, lastOp.resolved).tickers[lastOp.src] = lastOp.alias
    /\ IndexGet(ticker_index, upper(lastOp.alias)) = lastOp.resolved

\* C10 as stated: every register_security call and every successful add_ticker_mapping
\* call updates the in-memory structures and then, before returning, persists the
\* full table, so that the persisted table reflects the mutation.
C10_MutationsPersist ==
    /\ lastOp.op = "register_security"
        => (HasUid(securities, lastOp.id) /\ lastOp.writes = 1 /\ Persisted)
    /\ (lastOp.op = "add_ticker_mapping" /\ lastOp.result = TRUE)
        => (MappingInMemory /\ lastOp.writes = 1 /\ Persisted)

\* C10 amended: every successful add_ticker_mapping call made with persist enabled
\* updates the in-memory securities and ticker index and then, before returning,
\* rewrites the full table once (when the file can be opened), the table then holding
\* the to_dict row of every security in memory; with persist disabled it writes
\* nothing; register_security updates the in-memory structures only and never writes
\* the table itself.
C10_AddMappingPersists ==
    /\ lastOp.op = "register_security"
        => (HasUid(securities, lastOp.id) /\ lastOp.writes = 0)
    /\ (lastOp.op = "add_ticker_mapping" /\ lastOp.result = TRUE)
        => /\ MappingInMemory
           /\ (lastOp.persist /\ lastOp.io = "ok") => (lastOp.writes = 1 /\ Persisted)
           /\ ~lastOp.persist => lastOp.writes = 0

\* C10 witness: a persisting add_ticker_mapping on a registry of two securities whose
\* file held one row before; the file now holds both rows and the new alias
C10_Witness ==
    /\ lastOp.op = "add_ticker_mapping"
    /\ lastOp.result = TRUE
    /\ lastOp.persist
    /\ lastOp.src = "yahoo"
    /\ Len(securities) = 2
    /\ lastOp.writes = 1
    /\ Persisted
    /\ \E i \in DOMAIN csv.rows :
          csv.rows[i].uid = lastOp.resolved /\ csv.rows[i].ticker_yahoo = lastOp.alias

----------------------------------------------------------------------------
(* Claims about the fallback loop of fetch, under SpecFetch *)

\* the positions of the candidate list whose provider succeeds when invoked
Winners == {k \in 1..Len(f_sources) : f_sources[k] \in fetchers \cap f_ok}
FirstWinner == CHOOSE k \in Winners : \A j \in Winners : k <= j
\* what candidate k is asked for
Asked(k) == Data(f_sources[k], MapGet(f_tmap, f_sources[k], f_id))

\* C1: a finished fetch without a forced source has raised when every candidate
\* fails, and otherwise has returned exactly the data of the first candidate, in
\* route order, that succeeds; no earlier candidate's failure reaches the caller.
C1_FirstSuccessReturned ==
    f_pc = "done" =>
        IF Winners = {}
        THEN f_result.kind = "raised" /\ f_result.data = NoData
        ELSE f_result = Returned(Asked(FirstWinner))

\* a fetch whose first provider was invoked and failed and whose later candidate's
\* data came back
C1_Witness ==
    /\ f_pc = "done"
    /\ Winners # {}
    /\ FirstWinner > 1
    /\ Len(f_calls) >= 2
    /\ f_calls[1].source \notin f_ok
    /\ f_result = Returned(Asked(FirstWinner))

\* the calls made once the first n candidates are consumed: one for each of them
\* that has a fetcher, in the order of the list
InvokedUpTo(n) ==
    LET configured(k) == f_sources[k] \in fetchers
        idx == SelectSeq([k \in 1..n |-> k], configured)
    IN  [j \in 1..Len(idx) |-> Asked(idx[j])]

\* C2: during one fetch without a forced source the providers invoked so far are the candidates consumed
\* so far that have a fetcher, in the order of the routed list, each invoked once
\* and no provider twice, and every one before the last invoked has failed:
\* nothing is invoked after the first success.
C2_InOrderAtMostOnce ==
    f_pc \in {"idle", "loop", "done"} =>
        /\ f_i <= Len(f_sources)
        /\ f_calls = InvokedUpTo(f_i)
        /\ \A j, k \in 1..Len(f_calls) : j # k => f_calls[j].source # f_calls[k].source
        /\ \A k \in 1..(Len(f_calls) - 1) : f_calls[k].source \notin f_ok
        /\ f_result.kind = "returned" =>
              /\ f_pc = "done"
              /\ f_calls # << >>
              /\ f_calls[Len(f_calls)].source \in f_ok
              /\ f_result.data = f_calls[Len(f_calls)]
        /\ f_pc = "done" /\ f_result.kind = "raised" => f_i = Len(f_sources)

\* a fetch that stopped at its second candidate with candidates left untried
C2_Witness ==
    /\ f_pc = "done"
    /\ f_result.kind = "returned"
    /\ Len(f_calls) = 2
    /\ Len(f_calls) < Len(f_sources)
    /\ f_sources[3] \in f_ok

\* the failures the raised error carries, as a list
Carried(result) == IF result.carries = NoError THEN << >> ELSE <<result.carries>>

\* C3 as stated: when every candidate fails, the error raised carries the failure
\* of every attempted provider, in the order attempted.
C3_CarriesEveryFailure ==
    f_pc = "done" /\ f_result.kind = "raised" => Carried(f_result) = f_errors

\* C3 as amended: when every candidate fails, the error raised carries the failure
\* of the last attempted provider only, and no failure when none was attempted.
C3_CarriesLastFailure ==
    f_pc = "done" /\ f_result.kind = "raised" =>
        /\ f_result.carries = IF f_errors = << >> THEN NoError
                              ELSE f_errors[Len(f_errors)]
        /\ Len(f_errors) = Len(f_sources)
        /\ \A k \in 1..Len(f_errors) : f_errors[k].source = f_sources[k]

\* a fetch that raised after three different providers failed
C3_Witness ==
    /\ f_pc = "done"
    /\ f_result.kind = "raised"
    /\ Len(f_errors) >= 3
    /\ f_errors[1] # f_errors[Len(f_errors)]
    /\ f_result.carries = f_errors[Len(f_errors)]

----------------------------------------------------------------------------
(* Claims about one provider fetch, under SpecProvider *)

\* C4: in every provider fetch with caching enabled the cache check is the first
\* event and the only check, every rate-limiter wait comes after it, and every
\* network request comes right after a wait of its own; a fetch that hit the
\* cache has returned the payload stored under its key after the cache check alone,
\* with no wait and no request, and a fetch that returned after the cache check alone
\* is a hit.
C4_CacheThenWaitThenRequest ==
    p_cfg.use_cache /\ p_pc # "idle" =>
        /\ p_trace # << >>
        /\ p_trace[1] = "cache_get"
        /\ \A k \in 2..Len(p_trace) : p_trace[k] # "cache_get"
        /\ \A k \in 1..Len(p_trace) :
              p_trace[k] = "request" => k > 2 /\ p_trace[k - 1] = "wait"
        /\ p_result.from_cache =>
              /\ p_pc = "done"
              /\ p_trace = <<"cache_get">>
              /\ p_result.kind = "returned"
              /\ \E e \in cache : /\ e.provider = p_req.provider
                                  /\ e.cache_id = CacheId(p_req)
                                  /\ e.payload = p_result.payload
                                  /\ e.written <= now
        /\ p_pc = "done" /\ p_result.kind = "returned" /\ ~p_result.from_cache =>
              /\ Len(p_trace) >= 4
              /\ p_trace[Len(p_trace) - 1] = "request"

\* a fetch answered from the cache with the rows an earlier paginated fetch of the
\* same key, spelled in the other case, brought over the network
C4_Witness ==
    /\ p_cfg.use_cache
    /\ p_pc = "done"
    /\ p_result.from_cache
    /\ p_req.provider = "financialdata"
    /\ p_req.ticker = <<"u","s","d">>
    /\ Len(p_result.payload.rows) > PageLimit
    /\ p_trace = <<"cache_get">>

----------------------------------------------------------------------------
(* Claims about routing an identifier the registry does not know, under SpecFetch *)

\* a fetch without forced source was routed by _route_ticker
RoutedByTicker == f_pc \in {"loop", "done"} /\ get_security(Self, f_id) = None

\* the identifier is a crypto symbol, on one of the router's name lists, or holds
\* one of the macro-indicator keywords
OnNameList(ticker) ==
    \/ is_crypto_symbol(ticker)
    \/ lower(ticker) \in POLISH_STOCKS \cup POLISH_INDICES
    \/ upper(ticker) \in NBP_CURRENCIES
    \/ \E w \in {<<"R","A","T","E">>, <<"C","P","I">>, <<"G","D","P">>} :
          contains(upper(ticker), w)

\* C11: an identifier unknown to the registry that consists of 1 to 5 upper-case
\* letters (and, read in the claim's favour, is on none of the router's name
\* lists and holds no macro-indicator keyword, e.g. "AAPL") is routed to a candidate list whose first candidate is
\* yahoo, the general-equity provider, under every provider configuration.
C11_ShortUpperStartsWithYahoo ==
    RoutedByTicker /\ UpperLetters(f_id, 1, 5) /\ ~OnNameList(f_id) =>
        /\ f_sources = _route_ticker(fetchers, f_id)
        /\ f_sources # << >>
        /\ f_sources[1] = "yahoo"


\* The rules of the decision list, in the claim's order: 1 crypto pair, 2 domestic
\* equity name, 3 domestic index name, 4 fiat currency code, 5 six letters, 6 macro
\* indicator shape, 7 caret prefix, 8 short upper-case token, 9 dotted suffix,
\* 10 default.  RuleShape is what the identifier must look like.
RuleShape(k, ticker) ==
    CASE k = 1 -> is_crypto_symbol(ticker)
      [] k = 2 -> lower(ticker) \in POLISH_STOCKS
      [] k = 3 -> lower(ticker) \in POLISH_INDICES
      [] k = 4 -> upper(ticker) \in NBP_CURRENCIES
      [] k = 5 -> UpperLetters(upper(ticker), 6, 6)
      [] k = 6 -> MatchesFredPattern(upper(ticker))
      [] k = 7 -> startswith(ticker, <<"^">>)
      [] k = 8 -> isupper(ticker) /\ Len(ticker) \in 1..5
      [] k = 9 -> contains(ticker, <<".">>)
      [] OTHER -> TRUE

\* the provider a rule needs configured
RuleNeeds(k) ==
    CASE k = 1 -> {"ccxt"}
      [] k = 4 -> {"nbp"}
      [] k = 6 -> {"fred"}
      [] OTHER -> {}

\* the general-equity chain: yahoo, the alternates that are configured, two fallbacks
GeneralChain(fs, tail) ==
    SelectSeq(<<"yahoo", "tiingo", "financialdata">>,
              LAMBDA x : x = "yahoo" \/ x \in fs) \o tail

\* the chain of a rule
RuleChain(k, fs, ticker) ==
    CASE k = 1 -> <<"ccxt">>
      [] k = 2 -> SelectSeq(<<"stooq", "yahoo", "tiingo", "pdr">>,
                            LAMBDA x : x # "tiingo" \/ x \in fs)
      [] k = 3 -> <<"stooq", "yahoo", "pdr">>
      [] k = 4 -> <<"nbp", "stooq", "yahoo">>
      [] k = 5 -> <<"stooq", "yahoo", "pdr">>
      [] k = 6 -> <<"fred", "pdr">>
      [] k = 7 -> <<"yahoo", "stooq", "pdr">>
      [] k = 8 -> GeneralChain(fs, <<"pdr", "stooq">>)
      [] k = 9 -> IF endswith(upper(ticker), <<".", "W", "A">>)
                  THEN <<"yahoo", "stooq", "pdr">>
                  ELSE GeneralChain(fs, <<"pdr", "stooq">>)
      [] OTHER -> GeneralChain(fs, <<"stooq", "pdr">>)

Earliest(rules) == CHOOSE k \in rules : \A j \in rules : k <= j
\* the rules the identifier has the shape of, and those whose provider is there too
Shaped(ticker) == {k \in 1..10 : RuleShape(k, ticker)}
Applicable(fs, ticker) == {k \in Shaped(ticker) : RuleNeeds(k) \subseteq fs}

\* C12 as stated: an unknown identifier gets the chain of the earliest rule it
\* satisfies (the crypto rule counting only when the crypto provider is
\* configured, as the claim says), and a crypto pair gets the crypto provider alone
\* when that provider is configured.
C12_EarliestRuleWins ==
    RoutedByTicker =>
        LET rules == {k \in Shaped(f_id) : k = 1 => "ccxt" \in fetchers}
        IN  f_sources = RuleChain(Earliest(rules), fetchers, f_id)

\* C12 as amended: an unknown identifier gets the chain of the earliest rule it
\* satisfies, where the crypto, fiat-currency and macro-indicator rules count as
\* satisfied only when the ccxt, nbp and fred provider respectively is
\* configured; a crypto pair gets the crypto provider alone when ccxt is configured.
C12_EarliestApplicableRuleWins ==
    RoutedByTicker =>
        /\ f_sources = RuleChain(Earliest(Applicable(fetchers, f_id)), fetchers, f_id)
        /\ (is_crypto_symbol(f_id) /\ "ccxt" \in fetchers) => f_sources = <<"ccxt">>

\* an identifier with the shape of three rules, routed by the earliest of them,
\* and not by the caret-less later ones
C12_Witness ==
    /\ RoutedByTicker
    /\ f_id = <<"^","S","P","X">>
    /\ {7, 8, 10} \subseteq Applicable(fetchers, f_id)
    /\ Earliest(Applicable(fetchers, f_id)) = 7
    /\ "tiingo" \in fetchers
    /\ f_sources = <<"yahoo", "stooq", "pdr">>

\* the rule that answers for the routed identifier
RuleOf(ticker) == Earliest(Applicable(fetchers, ticker))
DottedWA(ticker) == RuleOf(ticker) = 9 /\ endswith(upper(ticker), <<".", "W", "A">>)
DottedOther(ticker) == RuleOf(ticker) = 9 /\ ~endswith(upper(ticker), <<".", "W", "A">>)
\* what the router gives a domestic-equity name and a short upper-case token
DomesticEquityList == _route_ticker(fetchers, <<"p","k","o">>)
ShortUpperList == _route_ticker(fetchers, <<"F">>)
\* a list with its last two candidates exchanged
SwapLastTwo(l) ==
    [i \in DOMAIN l |-> IF i = Len(l) - 1 THEN l[Len(l)]
                        ELSE IF i = Len(l) THEN l[Len(l) - 1] ELSE l[i]]

----------------------------------------------------------------------------
(* Claims about a forced source and about compare_sources, under SpecFetch *)

\* the ticker the registry holds for the forced source, if it knows the identifier
ForcedAlias ==
    IF get_security(Self, f_id) = None THEN None
    ELSE get_ticker(SecOf(securities, get_security(Self, f_id)), f_source)
\* what the forced source is to be asked for
ForcedAsk == Data(f_source, IF ForcedAlias # None THEN ForcedAlias ELSE f_id)
\* no candidate list was made, one call went to the forced source, and what it
\* returned or raised is the result of fetch
ForcedOnce ==
    /\ f_sources = << >> /\ f_tmap = << >> /\ f_i = 0
    /\ f_calls = <<ForcedAsk>>
    /\ f_result = IF f_source \in f_ok THEN Returned(ForcedAsk)
                  ELSE Raised(Error(f_source, "fetch failed"))

\* C14 as stated: a fetch with a forced provider P (one of the providers the
\* fetcher has a name for) makes no candidate list and invokes P alone, exactly
\* once, with the registry's alias for P when the security is known and has one
\* and else with the identifier as given; a failure of P is raised and nothing
\* else is tried.
C14_ForcedInvokedOnce ==
    f_pc = "forced" /\ f_source \in Range(FETCHER_ORDER) => ForcedOnce

\* C14 as amended: the same when P is a configured provider; when P is not
\* configured no provider is invoked at all and the error saying that P is not
\* available is raised.
C14_ForcedConfiguredInvokedOnce ==
    f_pc = "forced" =>
        IF f_source \in fetchers THEN ForcedOnce
        ELSE /\ f_sources = << >> /\ f_tmap = << >> /\ f_i = 0
             /\ f_calls = << >>
             /\ f_result = Raised(Error(f_source, "not available"))

\* a forced provider that was asked for the registry's alias, not the identifier
\* given, and failed, while another provider would have had the data
C14_Witness ==
    /\ f_pc = "forced"
    /\ f_source \in fetchers \ f_ok
    /\ fetchers \ {f_source} # {}
    /\ ForcedAlias # None /\ ForcedAlias # f_id
    /\ f_calls = <<Data(f_source, ForcedAlias)>>
    /\ f_result = Raised(Error(f_source, "fetch failed"))

\* what each named source is asked for, in the order of the list
ComparedAsks == [k \in 1..Len(f_sources) |-> Data(f_sources[k], f_id)]
\* the named source has a fetcher and its fetch succeeds
Succeeds(s) == s \in fetchers \cap f_ok

\* C15 as stated: compare_sources returns one entry per named provider, the
\* provider's data when its fetch succeeded and the provider's error when it
\* failed; every named provider is invoked exactly once whatever the others did,
\* and no other provider is invoked.  Read in the claim's favour: of a list that
\* names configured providers, each once.
C15_ResultOrErrorPerProvider ==
    /\ f_pc = "compared"
    /\ Range(f_sources) \subseteq fetchers
    /\ Cardinality(Range(f_sources)) = Len(f_sources)
    =>
        /\ DOMAIN f_results = Range(f_sources)
        /\ \A s \in Range(f_sources) :
              IF Succeeds(s) THEN f_results[s] = Data(s, f_id)
              ELSE f_results[s] \in {Error(s, "fetch failed"), Error(s, "not available")}
        /\ f_calls = ComparedAsks

\* C15 as amended: compare_sources returns one entry per distinct named provider,
\* the provider's data when its fetch succeeded and None when it failed or has no
\* fetcher (the error is printed and not returned); every named provider that has
\* a fetcher is invoked once for each time it is named, whatever the others did,
\* one that has none is not invoked, and no other provider is invoked.
C15_DataOrNonePerProvider ==
    f_pc = "compared" =>
        /\ DOMAIN f_results = Range(f_sources)
        /\ \A s \in Range(f_sources) :
              f_results[s] = IF Succeeds(s) THEN Data(s, f_id) ELSE NoData
        /\ f_calls = SelectSeq(ComparedAsks, LAMBDA d : d.source \in fetchers)
        /\ Len(f_errors) = Cardinality({k \in 1..Len(f_sources) : ~Succeeds(f_sources[k])})

\* three named providers, the second invoked and failing, the third invoked
\* after it and returning its data
C15_Witness ==
    /\ f_pc = "compared"
    /\ Len(f_sources) = 3
    /\ Range(f_sources) \subseteq fetchers
    /\ ~Succeeds(f_sources[2]) /\ Succeeds(f_sources[3])
    /\ f_calls = ComparedAsks
    /\ f_results[f_sources[2]] = NoData
    /\ f_results[f_sources[3]] = Data(f_sources[3], f_id)

----------------------------------------------------------------------------
(* Claims about the cache and the rate limiter, under SpecProvider *)

\* the max ages a caller may pass, zero among them
MaxAges == 0..(MaxTime + 1)
Hit(payload) == [hit |-> TRUE, payload |-> payload]
Miss == [hit |-> FALSE, payload |-> NoPayload]
\* get of what set stored as entry e, for every max age: the payload as stored
\* when the max age is larger than the time since the set; None when the max age
\* is zero or smaller than the time since the set
RoundTrip(e) ==
    \A h \in MaxAges :
        LET elapsed == now - e.written
            got     == cache_get(cache, e.provider, e.cache_id, h, now)
        IN  /\ h > elapsed => got = Hit(e.payload)
            /\ (h = 0 \/ elapsed > h) => got = Miss
\* the running fetch came back with data from the network and caching is on
JustSet ==
    p_cfg.use_cache /\ p_pc = "done" /\ p_result.kind = "returned" /\ ~p_result.from_cache

\* C16: whatever set has stored, get under the same provider and identifier
\* returns it unchanged when the max age is larger than the time elapsed since
\* that set, and returns None when the max age is zero or the elapsed time exceeds
\* it, whatever was set before; and a fetch that came back from the network has
\* set its data under the identifier its cache check asked for.
C16_CacheRoundTrip ==
    /\ \A e \in cache : e.written <= now /\ RoundTrip(e)
    /\ JustSet =>
          \E e \in cache : /\ e.provider = p_req.provider
                           /\ e.cache_id = CacheId(p_req)
                           /\ e.payload = p_result.payload
                           /\ RoundTrip(e)

\* an entry set a second time, one tick ago: a get with max age 2 has it, a get
\* with max age 0 or 1 has not
C16_Witness ==
    /\ p_n = 2
    /\ \E e \in cache :
          /\ e.provider = p_req.provider /\ e.cache_id = CacheId(p_req)
          /\ e.written > 0
          /\ now - e.written = 1
          /\ cache_get(cache, e.provider, e.cache_id, 2, now) = Hit(e.payload)
          /\ cache_get(cache, e.provider, e.cache_id, 1, now) = Miss
          /\ cache_get(cache, e.provider, e.cache_id, 0, now) = Miss

\* one step seen from the rate limiter: a wait of the running fetch stamps its
\* provider with the time the wait returns at, MinDelay or more after that
\* provider's previous stamp, and leaves every other provider's stamp alone; a
\* step that is no wait changes no stamp
WaitStep ==
    IF p_trace' = Append(p_trace, "wait")
    THEN \A q \in PROVIDERS :
            IF q = p_req.provider
            THEN /\ last_call'[q] = [called |-> TRUE, at |-> now']
                 /\ last_call[q].called => last_call'[q].at - last_call[q].at >= MinDelay
            ELSE last_call'[q] = last_call[q]
    ELSE last_call' = last_call

\* C17: in every sequence of rate_limiter.wait calls, two consecutive calls for
\* the same provider are stamped at least MinDelay apart, and a wait for one
\* provider never changes the last-call time recorded for another provider.
C17_WaitsSpaced == [][WaitStep]_vars

\* the waits of the running fetch
Waits == SelectSeq(p_trace, LAMBDA x : x = "wait")

\* a paginated fetch that has waited twice for its provider, the second wait
\* having blocked, after a fetch from another provider whose stamp is still the
\* one that fetch left
C17_Witness ==
    /\ p_req.provider = "financialdata"
    /\ Len(Waits) = 2
    /\ last_call["financialdata"] = [called |-> TRUE, at |-> now]
    /\ \E q \in PROVIDERS \ {"financialdata"} :
          last_call[q].called /\ now - last_call[q].at >= 2 * MinDelay

----------------------------------------------------------------------------
(* Claims about the corporate-actions adjuster, under SpecAdjust *)

\* the row's AdjustedClose is its Close divided by k
AdjustedIsCloseOver(row, k) ==
    row.AdjustedClose.den # 0 /\ k * row.AdjustedClose.num = row.Close * row.AdjustedClose.den

\* C18: adjust with no event gives one output row for each price row, with that
\* row's Close, CumulativeDivisor 1 and AdjustedClose equal to Close.
C18_NoEventsNoAdjustment ==
    a_pc = "done" /\ a_events = << >> =>
        /\ DOMAIN a_out = DOMAIN a_prices
        /\ \A d \in DOMAIN a_out :
              /\ a_out[d].Close = a_prices[d]
              /\ a_out[d].CumulativeDivisor = 1
              /\ AdjustedIsCloseOver(a_out[d], 1)

\* a series of three price rows adjusted with no event
C18_Witness ==
    /\ a_pc = "done"
    /\ a_events = << >>
    /\ Cardinality(DOMAIN a_prices) = 3
    /\ \A d \in DOMAIN a_prices : a_out[d] = Row(a_prices[d], 1)

\* C19: adjust with one split event of divisor 2 on date D gives every price row
\* dated before D an AdjustedClose of Close / 2 and every price row dated on D or
\* after D an AdjustedClose of Close.
C19_OneSplitHalvesEarlierRows ==
    a_pc = "done" /\ Len(a_events) = 1 /\ a_events[1].divisor = 2 =>
        \A d \in DOMAIN a_out :
            IF d < a_events[1].date THEN AdjustedIsCloseOver(a_out[d], 2)
            ELSE AdjustedIsCloseOver(a_out[d], 1)

----------------------------------------------------------------------------
(* Claims about loading the registry from its file, under SpecLoad *)

\* row k of the file is a well-formed record: the reader can read it and it has
\* a uid
WellFormed(k) == k \notin csv.unreadable /\ csv.rows[k].uid # None

\* C20: after a load from a file that holds malformed records, every well-formed
\* record of the file, before or after a malformed one, is registered, and only
\* the malformed ones are missing.
C20_MalformedSkippedAlone ==
    /\ \A k \in DOMAIN csv.rows :
          WellFormed(k) => HasUid(securities, csv.rows[k].uid)
    /\ \A i \in DOMAIN securities :
          \E k \in DOMAIN csv.rows : WellFormed(k) /\ csv.rows[k].uid = securities[i].uid

----------------------------------------------------------------------------
(* Claims about failures of the file write, under SpecRegistry *)

\* the last call reached _save and the file system refused: the directory could
\* not be created, or the file could not be opened for writing
SaveFailed ==
    /\ lastOp.io \in {"open_error", "mkdir_error"}
    /\ lastOp.op = "add_ticker_mapping" => (lastOp.resolved # None /\ lastOp.persist)

\* the in-memory mutation the last call made before it reached _save is what
\* get_security answers from: the alias assigned by add_ticker_mapping, the
\* security created by convert_ticker's discovery
MutationVisible ==
    /\ lastOp.op = "add_ticker_mapping" =>
          /\ get_security(Self, lastOp.resolved) = lastOp.resolved
          /\ SecOf(securities, lastOp.resolved).tickers[lastOp.src] = lastOp.alias
    /\ lastOp.op = "convert_ticker" =>
          /\ get_security(Self, lastOp.id) = ISIN_PREFIX \o lastOp.id
          /\ get_ticker(SecOf(securities, ISIN_PREFIX \o lastOp.id), "yahoo") # None

\* C21: a failure at either step of persisting the registry, creating the directory
\* or writing the file, never raises to the caller of add_ticker_mapping,
\* convert_ticker or discover_missing_yahoo_tickers, and the in-memory mutation made
\* before the write stays visible to get_security.
C21_SaveFailureNeverRaises ==
    SaveFailed => (~lastOp.raised /\ MutationVisible)

\* the part of C21 the code keeps: whatever the file system does, the mutation made
\* before _save stays in memory, and a failure to open the file is not raised
C21_WriteFailureSwallowed ==
    SaveFailed => (MutationVisible /\ (lastOp.io = "open_error" => ~lastOp.raised))

----------------------------------------------------------------------------
(* Claims about the batch discovery, under SpecRegistry *)

\* the last call was discover_missing_yahoo_tickers() with no ISIN list
DiscoveredAll == lastOp.op = "discover_missing_yahoo_tickers" /\ lastOp.pre.none

\* the securities the call started from that had an ISIN and no Yahoo alias and
\* for whose ISIN the delegate answered an alias
Answered ==
    {i \in DOMAIN lastOp.pre.securities :
        /\ lastOp.pre.securities[i].isin # None
        /\ get_ticker(lastOp.pre.securities[i], "yahoo") = None
        /\ lastOp.pre.oracle[lastOp.pre.securities[i].isin] # None}

\* C22: after discover_missing_yahoo_tickers() with no ISIN list, every registered
\* security that had an ISIN and no Yahoo alias, and for whose ISIN the delegate
\* answered an alias, holds that alias as its Yahoo ticker; so a second call with no
\* ISIN list right after it asks the delegate for none of these securities.
C22_DiscoveredAliasesHeld ==
    DiscoveredAll =>
        \A i \in Answered :
            LET before == lastOp.pre.securities[i] IN
            /\ get_ticker(SecOf(securities, before.uid), "yahoo")
                   = lastOp.pre.oracle[before.isin]
            /\ before.isin \notin Range(MissingIsins(securities))

\* what the code does for the securities whose uid is "isin_" followed by their ISIN
C22_IsinKeyedAliasesHeld ==
    DiscoveredAll =>
        \A i \in Answered :
            LET before == lastOp.pre.securities[i] IN
            before.uid = ISIN_PREFIX \o before.isin =>
                get_ticker(SecOf(securities, before.uid), "yahoo")
                    = lastOp.pre.oracle[before.isin]

----------------------------------------------------------------------------
(* Claims about two processes writing the one file, under SpecWriters *)

\* the alias of provider src in a row of the file
RowAlias(row, src) ==
    CASE src = "bloomberg" -> row.ticker_bloomberg
      [] src = "yahoo"     -> row.ticker_yahoo
      [] src = "stooq"     -> row.ticker_stooq
      [] src = "fred"      -> row.ticker_fred

\* the persisted table holds the mutation of process w
InTable(w) ==
    \E k \in DOMAIN csv.rows :
        csv.rows[k].uid = UID_ISIN_A /\ RowAlias(csv.rows[k], w_mut[w].src) = w_mut[w].alias

\* both processes are done, both calls returned True, neither raised, and both
\* writes went through: no error was reported anywhere
BothWroteCleanly ==
    \A w \in Writers :
        /\ w_pc[w] = "done"
        /\ w_out[w] = [result |-> TRUE, raised |-> FALSE, io |-> "ok"]

\* C23: two registry instances loaded from the same persisted table, each applying
\* a different mutation and persisting it, can leave a table that lacks one of the
\* two mutations with no error reported (C23_LostUpdate is reachable when the two
\* run interleaved); when they run one at a time, each loading after the other has
\* written, the table holds both mutations.
C23_SerialWritersKeepBoth ==
    (w_mode = "serial" /\ BothWroteCleanly) => \A w \in Writers : InTable(w)

\* C23 witness: the lost update.  Both processes loaded before either wrote, both
\* calls returned True and both writes went through, and the table lacks the alias
\* one of them added
C23_LostUpdate ==
    /\ w_mode = "interleaved"
    /\ BothWroteCleanly
    /\ \E w \in Writers : ~InTable(w)

----------------------------------------------------------------------------
(* Claims about the save/load round trip, under SpecRegistry *)

\* the registry a fresh instance holds after this one has saved: _save writes the
\* file, TickerRegistry(csv_path) loads it
Reloaded == _load(_save(Self, "ok").csv)

\* security i has the same alias for provider src after the round trip
AliasKept(i, src) ==
    /\ HasUid(Reloaded.securities, securities[i].uid)
    /\ get_ticker(SecOf(Reloaded.securities, securities[i].uid), src)
           = get_ticker(securities[i], src)

\* C24: persisting the registry and loading it again yields, for every security,
\* the same alias for every supported provider (bloomberg, yahoo, stooq, fred, nbp):
\* no alias added through register_security or add_ticker_mapping is lost.
C24_RoundTripKeepsAliases ==
    \A i \in DOMAIN securities : \A src \in SourceType : AliasKept(i, src)

\* what the code keeps: the aliases of the four providers that have a column
C24_RoundTripKeepsColumnAliases ==
    \A i \in DOMAIN securities : \A src \in SourceType \ {"nbp"} : AliasKept(i, src)

----------------------------------------------------------------------------
(* Claims about the cache keys of the provider fetches, under SpecProvider *)

\* two fetches of one provider differ in ticker, date range or an extra option.
\* The providers take tickers in any letter case (each fetch upper-cases its
\* ticker first), so tickers that differ in case only are the same ticker
Differ(r1, r2) ==
    \/ upper(r1.ticker) # upper(r2.ticker)
    \/ r1.start # r2.start
    \/ r1.option # r2.option
    \/ r1.paginate # r2.paginate

\* the two fetches read and write the same cache entry
SameEntry(r1, r2) == r1.provider = r2.provider /\ CacheId(r1) = CacheId(r2)

\* C25: two provider fetches that differ in ticker, date range or any extra option
\* (FinancialData paginate, NBP table) never read or write the same cache entry: no
\* fetch that differs from the running one has its cache key.
C25_DistinctFetchesDistinctEntries ==
    (p_cfg.use_cache /\ p_pc # "idle") =>
        \A r \in Requests :
            (r.provider = p_req.provider /\ Differ(r, p_req)) => ~SameEntry(r, p_req)

\* what the code keeps: fetches that differ in ticker, date range, NBP table or
\* FinancialData endpoint have different keys
C25_KeyedByTickerDatesAndEndpoint ==
    (p_cfg.use_cache /\ p_pc # "idle") =>
        \A r \in Requests :
            (/\ r.provider = p_req.provider
             /\ \/ upper(r.ticker) # upper(p_req.ticker)
                \/ r.start # p_req.start
                \/ r.option # p_req.option) => ~SameEntry(r, p_req)

\* a FinancialData fetch with paginate off was answered from the cache with more
\* rows than one page holds: the entry was written by a fetch with paginate on
C25_PaginatedEntryServed ==
    /\ p_pc = "done"
    /\ p_result.from_cache
    /\ p_req.provider = "financialdata"
    /\ ~p_req.paginate
    /\ Len(p_result.payload.rows) > PageLimit

----------------------------------------------------------------------------
(* Claims about the cumulative divisor, under SpecAdjust *)

\* the product of the divisors of the events dated on or after d
RECURSIVE ProductFrom(_, _)
ProductFrom(events, d) ==
    IF events = << >> THEN 1
    ELSE (IF Head(events).date >= d THEN Head(events).divisor ELSE 1)
            * ProductFrom(Tail(events), d)

\* the dates adjust scans: those of the price rows and those of the events
UnionDates == DOMAIN a_prices \cup {a_events[i].date : i \in DOMAIN a_events}

\* C26: in adjust, the CumulativeDivisor of each date d of the sorted union is the
\* product of the event divisors of every date on or after d (its own events
\* included, several events on one date multiplied, dates without event counting
\* 1); an event on a date with no price row produces no output row and still
\* divides the AdjustedClose of every earlier price row.
C26_CumulativeIsProductFromDate ==
    a_pc = "done" =>
        /\ \A d \in UnionDates :
              CumulativeDivisor(a_events, UnionDates, d) = ProductFrom(a_events, d)
        /\ DOMAIN a_out = DOMAIN a_prices
        /\ \A d \in DOMAIN a_out :
              /\ a_out[d].CumulativeDivisor = ProductFrom(a_events, d)
              /\ AdjustedIsCloseOver(a_out[d], ProductFrom(a_events, d))
              /\ \A i \in DOMAIN a_events :
                    (a_events[i].date \notin DOMAIN a_prices /\ d < a_events[i].date)
                        => a_out[d].AdjustedClose.den % a_events[i].divisor = 0

\* C26 witness: two events, of divisors 2 and 3, on date 2, which has no price row;
\* the row of date 1 is divided by 6, the row of date 3 by 1, and there is no row
\* for date 2
C26_Witness ==
    /\ a_pc = "done"
    /\ DOMAIN a_prices = {1, 3}
    /\ a_events = <<Event(2, 2), Event(2, 3)>>
    /\ DOMAIN a_out = {1, 3}
    /\ a_out[1] = Row(a_prices[1], 6)
    /\ a_out[3] = Row(a_prices[3], 1)

----------------------------------------------------------------------------
(* Claims about routing a security the registry knows, under SpecFetch *)

\* fetch was called without a forced source on an identifier the registry resolves
RoutedBySecurity == f_pc \in {"loop", "done"} /\ get_security(Self, f_id) # None
Known == SecOf(securities, get_security(Self, f_id))

\* the priority lists the statement gives
DomesticList == <<"stooq", "yahoo", "pdr">>
PlnCurrencyList == <<"nbp", "stooq", "yahoo">>
IsDomestic(security) ==
    security.instrument_type \in {"equity", "index"} /\ security.country = <<"P","L">>
IsPlnCurrency(security) ==
    security.instrument_type = "currency" /\ contains(security.uid, <<"P","L","N">>)
StatedList(security) == IF IsDomestic(security) THEN DomesticList ELSE PlnCurrencyList

\* the provider is configured and the security has an alias for it, or it is nbp
\* and a currency code can be taken from an fx_ uid
HasFxCode(security, src) == src = "nbp" /\ startswith(security.uid, <<"f","x","_">>)
Usable(security, src) ==
    /\ src \in fetchers
    /\ get_ticker(security, src) # None \/ HasFxCode(security, src)
AliasFor(security, src) ==
    IF get_ticker(security, src) # None THEN get_ticker(security, src)
    ELSE <<security.uid[4], security.uid[5], security.uid[6]>>

\* position of x in a list without repetition
PosIn(list, x) == CHOOSE k \in DOMAIN list : list[k] = x

\* C27: for a security known to the registry that is a domestic (PL) equity or index,
\* or a currency whose uid contains PLN, the candidate list is the subsequence, in
\* priority order, of its priority list (stooq, yahoo, pdr; nbp, stooq, yahoo)
\* restricted to the configured providers for which the security has a non-empty
\* alias (or nbp with the code taken from an fx_ uid), each paired with that alias;
\* only when that subsequence is empty are the candidates all configured providers,
\* each queried with the ISIN if the security has one and otherwise with the uid.
C27_KnownSecurityCandidates ==
    (RoutedBySecurity /\ (IsDomestic(Known) \/ IsPlnCurrency(Known))) =>
        LET list   == StatedList(Known)
            usable == {src \in Range(list) : Usable(Known, src)}
        IN  IF usable # {}
            THEN /\ Range(f_sources) = usable
                 /\ Len(f_sources) = Cardinality(usable)
                 /\ \A i, j \in DOMAIN f_sources :
                       i < j => PosIn(list, f_sources[i]) < PosIn(list, f_sources[j])
                 /\ \A src \in usable : f_tmap[src] = AliasFor(Known, src)
            ELSE /\ Range(f_sources) = fetchers
                 /\ Len(f_sources) = Cardinality(fetchers)
                 /\ \A src \in fetchers :
                       f_tmap[src] = IF Known.isin # None THEN Known.isin ELSE Known.uid

\* C27 witness: the domestic equity, which has a stooq and a yahoo alias and none for
\* pdr, fetched by its ISIN with every provider configured: stooq then yahoo, each
\* with its alias
C27_Witness ==
    /\ RoutedBySecurity
    /\ f_id = ISIN_A
    /\ fetchers = Range(FETCHER_ORDER)
    /\ IsDomestic(Known)
    /\ f_sources = <<"stooq", "yahoo">>
    /\ f_tmap["stooq"] = <<"x","t","b">>
    /\ f_tmap["yahoo"] = TICKER_XTB

\* the other two cases are reached as well: the nbp code taken from the fx_ uid, and
\* the fallback to every configured provider queried with the uid
C27_FxCodeAndFallbackReached ==
    \/ /\ RoutedBySecurity /\ IsPlnCurrency(Known)
       /\ f_sources = <<"nbp">> /\ f_tmap["nbp"] = <<"U","S","D">>
    \/ /\ RoutedBySecurity /\ IsDomestic(Known) /\ Known.instrument_type = "index"
       /\ fetchers # {} /\ Range(f_sources) = fetchers
       /\ \A src \in fetchers : f_tmap[src] = Known.uid

----------------------------------------------------------------------------
(* Claims about stale keys of the ticker index, under SpecRegistry *)

\* the security holds k as its ISIN or, in any letter case, as one of its aliases
Holds(security, k) ==
    \/ security.isin = k
    \/ \E src \in SourceType :
          security.tickers[src] # None /\ upper(security.tickers[src]) = upper(k)

\* C28: in every reachable registry state each key of the ticker index maps to the
\* uid of a registered security that now holds the key as its ISIN or,
\* case-insensitively, as one of its aliases; so get_security never answers with a
\* security for an alias that security no longer holds.
C28_IndexKeysAreHeld ==
    \A k \in DOMAIN ticker_index :
        /\ HasUid(securities, ticker_index[k])
        /\ Holds(SecOf(securities, ticker_index[k]), k)

\* what the code keeps: every key maps to a registered uid, and the key was, at the
\* time it was written, the ISIN or an alias of that security
C28_IndexKeysAreRegistered ==
    \A k \in DOMAIN ticker_index : HasUid(securities, ticker_index[k])

\* get_security answers an alias with a security that does not hold it
C28_StaleAliasAnswered ==
    /\ lastOp.op = "get_security"
    /\ lastOp.result # None
    /\ ~HasUid(securities, lastOp.id)
    /\ ~Holds(SecOf(securities, lastOp.result), lastOp.id)

----------------------------------------------------------------------------
(* Claims about pagination in FinancialDataFetcher._request, under SpecProvider *)

\* the running fetch is _request with paginate on, on an endpoint with a page limit
Paginating ==
    /\ p_req.provider = "financialdata"
    /\ p_req.paginate
    /\ p_req.option \in DOMAIN ENDPOINTS
    /\ ENDPOINTS[p_req.option] # NoLimit

\* the requests made so far by the running fetch
NRequests == Len(SelectSeq(p_trace, LAMBDA x : x = "request"))

\* rows is the concatenation of `full` full list pages in request order: the API's
\* row at offset o is numbered o + 1
FullPages(rows, full) ==
    /\ Len(rows) >= full * PageLimit
    /\ \A i \in 1..(full * PageLimit) : rows[i] = i

\* C29: _request with paginate on, on an endpoint with page limit L, stops as soon as
\* the API returns a response that is not a full list page (a list shorter than L, an
\* empty list, or a dict wrapper): while it goes on, every response so far was a full
\* list page, the offsets requested were 0, L, 2L, ... with none repeated or skipped,
\* and what it returns is the pages concatenated in request order.
C29_StopsAtFirstPartialResponse ==
    Paginating =>
        /\ p_pc \in {"wait", "request"} =>
              /\ p_offset = NRequests * PageLimit
              /\ FullPages(p_data, NRequests)
              /\ Len(p_data) = NRequests * PageLimit
        /\ (p_pc = "done" /\ p_result.kind = "returned" /\ ~p_result.from_cache) =>
              /\ p_offset = (NRequests - 1) * PageLimit
              /\ FullPages(p_result.payload.rows, NRequests - 1)
              /\ Len(p_result.payload.rows) < NRequests * PageLimit
              /\ \A i \in DOMAIN p_result.payload.rows :
                    p_result.payload.rows[i] \in {i, 0}

\* what the code keeps: the offsets requested are 0, L, 2L, ... in order, and the
\* loop is left at the first list shorter than L; a dict wrapper is appended and
\* the loop goes on to the next offset
C29_StopsAtFirstShortList ==
    Paginating =>
        /\ p_pc \in {"wait", "request"} =>
              /\ p_offset = NRequests * PageLimit
              /\ Len(p_data) <= NRequests * PageLimit
              /\ \A i \in DOMAIN p_data : p_data[i] = 0 \/ p_data[i] > i - 1
        /\ (p_pc = "done" /\ p_result.kind = "returned" /\ ~p_result.from_cache) =>
              /\ p_offset = (NRequests - 1) * PageLimit
              /\ p_result.payload.rows = p_data
              /\ \A i, j \in DOMAIN p_data :
                    (i < j /\ p_data[i] # 0 /\ p_data[j] # 0) => p_data[i] < p_data[j]

\* a dict wrapper came back and the loop went on to request the next offset
C29_GoesOnAfterDict ==
    /\ Paginating
    /\ p_pc = "request"
    /\ p_offset = PageLimit
    /\ p_data = <<0>>

----------------------------------------------------------------------------
(* Claims about what a provider fetch does to the cache, under SpecProvider *)

CacheEvents == {"cache_get", "cache_set"}

\* the state of a fetch that returned what the network gave it
FetchedFromNetwork ==
    /\ p_pc = "done"
    /\ p_result.kind = "returned"
    /\ ~p_result.from_cache
    /\ p_result.payload.rows # << >>
    /\ Len(p_trace) >= 2
    /\ p_trace[Len(p_trace) - 1] = "request"

\* what holds of the cache in every state a step leads to: a fetch has written to
\* it only if it fetched from the network with caching on, and then last of all;
\* with caching off the cache is empty and the fetch has neither read nor written it
CacheOnlyAfterSuccess ==
    /\ "cache_set" \in Range(p_trace) =>
          /\ FetchedFromNetwork
          /\ p_cfg.use_cache
          /\ p_trace[Len(p_trace)] = "cache_set"
          /\ \A k \in 1..(Len(p_trace) - 1) : p_trace[k] # "cache_set"
    /\ ~p_cfg.use_cache => (cache = {} /\ Range(p_trace) \cap CacheEvents = {})
    /\ \A e \in cache : e.payload.rows # << >>

\* C30: a provider fetch writes to the cache only after its network call succeeded
\* and produced a non-empty result: the cache changes only in the step that ends a
\* fetch with the non-empty rows the network gave, any failing fetch (HTTP error,
\* empty data, parse error) leaves every cache entry as it was, and with use_cache
\* off the cache is neither read nor written.
C30_CacheWrittenOnlyAfterSuccess ==
    [][/\ CacheOnlyAfterSuccess'
       /\ cache' # cache =>
             (FetchedFromNetwork' /\ p_cfg.use_cache /\ p_pc = "request")
       /\ (p_pc' = "done" /\ p_result'.kind = "raised") => cache' = cache]_vars

\* C30 witness: a fetch with caching on has failed after its network call while the
\* cache holds the entry an earlier fetch stored
C30_Witness ==
    /\ p_cfg.use_cache
    /\ p_pc = "done"
    /\ p_result.kind = "raised"
    /\ p_result.error = "JSONDecodeError"
    /\ "request" \in Range(p_trace)
    /\ "cache_set" \notin Range(p_trace)
    /\ cache # {}
====
